---- MODULE Spec2Model ----
(***************************************************************************)
(* Overlay routing and signaling engine of rings-node.                     *)
(*                                                                         *)
(* Two generations of the message handler live in the repository:          *)
(*   rings-core/src/message/handlers/mod.rs  (handle_payload, listen,      *)
(*       listen_once, validate, invoke_callback)                           *)
(*   bns-core/src/message/handler.rs         (handle_message, the Chord    *)
(*       handlers, listen, stabilize)                                      *)
(* Each is modelled as written.  Variables prefixed r belong to the        *)
(* rings-core handler, variables prefixed b to the bns-core handler.       *)
(***************************************************************************)
EXTENDS Integers, Sequences, FiniteSets, TLC

(***************************************************************************)
(* Bounds of the model.                                                    *)
(***************************************************************************)
\* payloads that arrive on one node's inbound stream
MaxArrivals == 3
\* inner messages carried by one MultiCall
MaxInner == 2
\* custom messages one node sends to its peer
MaxSends == 2
\* FindSuccessor requests issued in the bns-core network
MaxRequests == 1
\* longest relay path a handler is given
MaxPath == 4
\* longest to_path of a message a peer sends to a handler directly
MaxRelay == 2
\* stabilize rounds
MaxRounds == 5

\* The nodes; a node is named by its Did.
Node == {1, 2}

NoReason == "NoReason"
(***************************************************************************)
(* rings-core: messages and payloads.                                      *)
(***************************************************************************)
\* The tags with a dispatch arm `self.handle(payload, msg)` in handle_payload.
HandledTags ==
    {"JoinDHT", "LeaveDHT", "ConnectNodeSend", "ConnectNodeReport",
     "AlreadyConnected", "FindSuccessorSend", "FindSuccessorReport",
     "NotifyPredecessorSend", "NotifyPredecessorReport", "SearchVNode",
     "FoundVNode", "StoreVNode", "CustomMessage"}

\* Tags the node emits (subring.rs) that have no arm in handle_payload.
OtherTags == {"JoinSubRing"}

\* A message: its tag; ok is the outcome of the tag's HandleMsg::handle on it
\* (the handlers live in other files and are inputs here); wrap is the outcome
\* of MessagePayload::new on it; body is the content of a custom message;
\* inner the messages of a MultiCall.
Msg(tag, ok, wrap, body, inner) ==
    [tag |-> tag, ok |-> ok, wrap |-> wrap, body |-> body, inner |-> inner]

\* A payload: the message, the previous hop addr, relay.destination, and the
\* outcome of payload.verify() (signature and expiry).
Payload(msg, addr, dest, verified) ==
    [msg |-> msg, addr |-> addr, dest |-> dest, verified |-> verified]

VARIABLES
    rValidator,  \* [Node -> validator]: NoValidator, or the set of tags it rejects
    rCallback,   \* [Node -> BOOLEAN]: a callback is installed
    rRuntime,    \* [Node -> {"native", "wasm"}]
    rArrived,    \* [Node -> Seq(Payload)]: the inbound stream so far
    rPos,        \* [Node -> Nat]: payloads the listener has taken off the stream
    rEnded,      \* [Node -> BOOLEAN]: the inbound stream has ended
    rListener,   \* [Node -> {"idle", "running", "done"}]: the native listen task
    rHandled,    \* [Node -> Seq]: handle_payload calls made by the listener
    rLast,       \* the last handle_payload call, its result and its trace
    rCustomLog,  \* [Node -> Seq]: what callback.custom_message observed
    rSent        \* [Node -> Seq]: custom messages sent with send_direct_message

rvars == <<rValidator, rCallback, rRuntime, rArrived, rPos, rEnded, rListener,
           rHandled, rLast, rCustomLog, rSent>>

VARIABLES
    bSuccessor,   \* [BNode -> Did]: chord.successor
    bPredecessor, \* [BNode -> Did or None]: chord.predecessor
    bFinger,      \* [BNode -> [0..RingBits-1 -> Did or None]]: chord.finger
    bInbox,       \* [BNode -> Seq]: verified payloads waiting for handle_message
    bPanicked,    \* [BNode -> BOOLEAN]: a handler of the node has panicked
    bLast,        \* the last handle_message call: what it sent and returned
    bRequests,    \* requests issued so far
    bTransport,   \* [BNode -> SUBSET BNode]: peers the swarm holds a transport for
    bFixIndex,    \* [BNode -> 0..RingBits-1]: chord.fix_finger_index
    bTicks        \* [BNode -> Nat]: stabilize calls the node has made

bvars == <<bSuccessor, bPredecessor, bFinger, bInbox, bPanicked, bLast, bRequests,
           bTransport, bFixIndex, bTicks>>

VARIABLES
    kProg,  \* [task -> Seq(instruction)]: the lock steps each running task makes
    kPc,    \* [task -> Nat]: instructions of its program the task has completed
    kHeld   \* [mutex -> task or Free]: who holds each futures::lock::Mutex

kvars == <<kProg, kPc, kHeld>>

VARIABLES
    pState,     \* RTCPeerConnectionState of the transport's peer connection
    pPromises,  \* Seq of promises made by connect_success_promise, with their futures
    pHandler    \* the promise the registered state-change callback completes (0: none)

pvars == <<pState, pPromises, pHandler>>

VARIABLES
    fCall       \* one call of a function: its name, its input, and its result once made

fvars == <<fCall>>

VARIABLES
    hT,     \* [Side -> transport]: the two DefaultTransports of a handshake
    hWire,  \* the handshake infos get_handshake_info has returned
    hLast   \* the last operation on a transport and its result

hvars == <<hT, hWire, hLast>>

VARIABLES
    cTask,   \* [task -> record]: where each handle_message(ConnectNode) call is
    cRing,   \* the task holding the ring mutex, or 0 when it is free
    cTable,  \* swarm.transports for the sender: a transport id, or None
    cLog     \* what the calls have done so far, in order

cvars == <<cTask, cRing, cTable, cLog>>

vars == <<rvars, bvars, kvars, pvars, fvars, hvars, cvars>>

\* What an action of the rings-core handler leaves alone, what one of the
\* bns-core handler does, and so on for each part of the model.
notR == <<bvars, kvars, pvars, fvars, hvars, cvars>>

notB == <<rvars, kvars, pvars, fvars, hvars, cvars>>

notK == <<rvars, bvars, pvars, fvars, hvars, cvars>>

notP == <<rvars, bvars, kvars, fvars, hvars, cvars>>

notF == <<rvars, bvars, kvars, pvars, hvars, cvars>>

notH == <<rvars, bvars, kvars, pvars, fvars, cvars>>

notC == <<rvars, bvars, kvars, pvars, fvars, hvars>>

(***************************************************************************)
(* Mutexes.  Every lock in the program is a futures::lock::Mutex: it has   *)
(* one holder, lock().await suspends the caller until it is free, and a    *)
(* task that asks for a mutex it holds itself waits for ever.  A task is   *)
(* the sequence of lock, unlock and other steps its code makes.            *)
(***************************************************************************)
Free == "free"

\* One step of a task: what it does, on which mutex, at which line, and whether
\* the step is part of an outgoing send (the body of send_message).
Instr(op, mutex, line, sending) ==
    [op |-> op, mutex |-> mutex, line |-> line, sending |-> sending]

\* MessageHandler::send_message: the swarm guard lives from line 35 to the end
\* of the function, over the await of swarm.send_message.
send_message_locks ==
    << Instr("lock", "swarm", 35, TRUE),
       Instr("step", "swarm.send_message", 37, TRUE),
       Instr("unlock", "swarm", 38, TRUE) >>

\* stabilize: `chord` is locked in the first statement and dropped at the end
\* of the function; both send_message calls are made in between.
stabilize_locks(remote) ==
    << Instr("lock", "routing", 294, FALSE) >>
    \o send_message_locks
    \o << Instr("step", "fix_fingers", 312, FALSE) >>
    \o (IF remote THEN send_message_locks ELSE << >>)
    \o << Instr("unlock", "routing", 343, FALSE) >>

\* The handlers: each locks the ring in its first statement and keeps the
\* guard to its end, the handlers that send over their send_message call.
handle_notify_predecessor_locks ==
    << Instr("lock", "routing", 172, FALSE) >>
    \o send_message_locks
    \o << Instr("unlock", "routing", 189, FALSE) >>

handle_notified_predecessor_locks ==
    << Instr("lock", "routing", 196, FALSE),
       Instr("step", "chord.successor", 200, FALSE),
       Instr("unlock", "routing", 203, FALSE) >>

handle_find_successor_locks ==
    << Instr("lock", "routing", 206, FALSE) >>
    \o send_message_locks
    \o << Instr("unlock", "routing", 240, FALSE) >>

\* forwards: the REPORT has hops left and is sent on; otherwise the successor
\* is set and nothing is sent.
handle_found_successor_locks(forwards) ==
    << Instr("lock", "routing", 247, FALSE) >>
    \o (IF forwards THEN send_message_locks
                    ELSE << Instr("step", "chord.successor", 266, FALSE) >>)
    \o << Instr("unlock", "routing", 269, FALSE) >>

\* handle_connect_node takes no ring lock of its own; it sends.
handle_connect_node_locks == send_message_locks

\* What the listener may find in a payload.
LockTags == {"ConnectNode", "FindSuccessor", "FoundSuccessor", "FoundSuccessorLast",
             "NotifyPredecessor", "NotifiedPredecessor", "Unsupported"}

\* handle_message: `&self.routing.lock().await.id` borrows from the guard, so
\* the guard lives as long as `current`, to the end of handle_message.
handle_message_locks(tag) ==
    << Instr("lock", "routing", 41, FALSE) >>
    \o (CASE tag = "ConnectNode" -> handle_connect_node_locks
          [] tag = "FindSuccessor" -> handle_find_successor_locks
          [] tag = "FoundSuccessor" -> handle_found_successor_locks(TRUE)
          [] tag = "FoundSuccessorLast" -> handle_found_successor_locks(FALSE)
          [] tag = "NotifyPredecessor" -> handle_notify_predecessor_locks
          [] tag = "NotifiedPredecessor" -> handle_notified_predecessor_locks
          [] OTHER -> << >>)
    \o << Instr("unlock", "routing", 56, FALSE) >>

\* listen: the swarm guard is taken before the loop and lives over it; one
\* turn of the loop takes a payload and handles it.
listen_locks(tag) ==
    << Instr("lock", "swarm", 272, FALSE),
       Instr("step", "payloads.next", 277, FALSE) >>
    \o handle_message_locks(tag)

\* The programs a task may run, and where its loop starts again.
BnsTasks == {"listen", "stabilize"}

BnsPrograms(t) ==
    IF t = "listen" THEN {listen_locks(tag) : tag \in LockTags}
    ELSE {stabilize_locks(remote) : remote \in BOOLEAN}

BnsLoopStart(t) == IF t = "listen" THEN 1 ELSE 0

\* The task's next instruction, if it has one.
Finished(t) == kPc[t] = Len(kProg[t])

NextInstr(t) == kProg[t][kPc[t] + 1]

\* lock().await returns once the mutex is free.
Lock(t) ==
    /\ ~Finished(t)
    /\ NextInstr(t).op = "lock"
    /\ kHeld[NextInstr(t).mutex] = Free
    /\ kHeld' = [kHeld EXCEPT ![NextInstr(t).mutex] = t]
    /\ kPc' = [kPc EXCEPT ![t] = @ + 1]
    /\ UNCHANGED <<kProg, notK>>

\* The guard is dropped.
Unlock(t) ==
    /\ ~Finished(t)
    /\ NextInstr(t).op = "unlock"
    /\ kHeld' = [kHeld EXCEPT ![NextInstr(t).mutex] = Free]
    /\ kPc' = [kPc EXCEPT ![t] = @ + 1]
    /\ UNCHANGED <<kProg, notK>>

\* Any other await or statement.
Step(t) ==
    /\ ~Finished(t)
    /\ NextInstr(t).op = "step"
    /\ kPc' = [kPc EXCEPT ![t] = @ + 1]
    /\ UNCHANGED <<kProg, kHeld, notK>>

\* The task waits for a mutex that is not free.
Blocked(t) ==
    /\ ~Finished(t)
    /\ NextInstr(t).op = "lock"
    /\ kHeld[NextInstr(t).mutex] # Free

\* The task is inside send_message: called, not yet returned.
AtSend(t) == ~Finished(t) /\ NextInstr(t).sending

(***************************************************************************)
(* The three mutexes of a DefaultTransport (rings-core): connection,       *)
(* data_channel and pending_candidates, and the operations that lock them. *)
(***************************************************************************)
\* The most candidates a handshake carries.
MaxCandidates == 2

TransportMutexes == {"connection", "data_channel", "pending_candidates"}

\* The documented order: connection, then data_channel, then pending_candidates.
Rank(m) ==
    CASE m = "connection" -> 1
      [] m = "data_channel" -> 2
      [] m = "pending_candidates" -> 3

\* self.connection.lock().await.clone(): the guard is a temporary.
get_peer_connection_locks ==
    << Instr("lock", "connection", 79, FALSE),
       Instr("unlock", "connection", 79, FALSE) >>

get_data_channel_locks ==
    << Instr("lock", "data_channel", 87, FALSE),
       Instr("unlock", "data_channel", 87, FALSE) >>

setup_channel_locks ==
    get_peer_connection_locks
    \o << Instr("step", "create_data_channel", 480, FALSE),
          Instr("lock", "data_channel", 483, FALSE),
          Instr("unlock", "data_channel", 486, FALSE) >>

\* start: the connection guard lives in the Ok arm only; setup_channel follows.
start_locks ==
    << Instr("step", "new_peer_connection", 167, FALSE),
       Instr("lock", "connection", 169, FALSE),
       Instr("unlock", "connection", 172, FALSE) >>
    \o setup_channel_locks

\* get_offer / get_answer: the connection is read, the description is set as
\* the local one (set_local_description reads the connection again), and the
\* end of ICE gathering is awaited.
get_offer_locks ==
    get_peer_connection_locks
    \o get_peer_connection_locks
    \o << Instr("step", "gather_complete.recv", 98, FALSE) >>

\* get_handshake_info with the connection read while the candidates are held.
get_handshake_info_locks_nested ==
    << Instr("lock", "pending_candidates", 413, FALSE) >>
    \o get_offer_locks
    \o << Instr("step", "join_all", 411, FALSE),
          Instr("unlock", "pending_candidates", 418, FALSE) >>

\* get_handshake_info: after the description, the candidates are locked for
\* the length of the join_all statement.
get_handshake_info_locks ==
    get_offer_locks
    \o << Instr("lock", "pending_candidates", 413, FALSE),
          Instr("step", "join_all", 411, FALSE),
          Instr("unlock", "pending_candidates", 418, FALSE) >>

RECURSIVE add_ice_candidates_locks(_)
add_ice_candidates_locks(k) ==
    IF k = 0 THEN << >>
    ELSE get_peer_connection_locks \o add_ice_candidates_locks(k - 1)

\* register_remote_info of a handshake with k candidates: the remote
\* description and every candidate go through get_peer_connection.
register_remote_info_locks(k) ==
    get_peer_connection_locks
    \o add_ice_candidates_locks(k)
    \o << Instr("step", "public_key.write", 452, FALSE) >>

transport_send_message_locks ==
    get_data_channel_locks
    \o << Instr("step", "cnn.send", 240, FALSE) >>

\* The local-candidate callback: one candidate is pushed.
on_ice_candidate_locks ==
    << Instr("lock", "pending_candidates", 320, FALSE),
       Instr("step", "candidates.push", 321, FALSE),
       Instr("unlock", "pending_candidates", 322, FALSE) >>

TransportOps == {"start", "setup_channel", "get_handshake_info",
                 "register_remote_info", "send_message", "on_ice_candidate"}

TransportPrograms(t) ==
    CASE t = "start" -> {start_locks}
      [] t = "setup_channel" -> {setup_channel_locks}
      [] t = "get_handshake_info" -> {get_handshake_info_locks}
      [] t = "register_remote_info" ->
            {register_remote_info_locks(k) : k \in 0..MaxCandidates}
      [] t = "send_message" -> {transport_send_message_locks}
      [] t = "on_ice_candidate" -> {on_ice_candidate_locks}

\* No task is running and no mutex exists.
KOff ==
    /\ kProg = <<>>
    /\ kPc = <<>>
    /\ kHeld = <<>>

\* No promise has been made.
POff ==
    /\ pState = "New"
    /\ pPromises = << >>
    /\ pHandler = 0

\* No function is being called.
NoFn == [fn |-> "", in |-> << >>, done |-> FALSE, out |-> << >>]

FOff == fCall = NoFn

\* No transport has been made.
HOff ==
    /\ hT = << >>
    /\ hWire = {}
    /\ hLast = << >>

\* No ConnectNode request is being handled.
COff ==
    /\ cTask = << >>
    /\ cRing = 0
    /\ cTable = -1
    /\ cLog = << >>

\* The parts of the program a specification of the handlers leaves out.
RestOff == KOff /\ POff /\ FOff /\ HOff /\ COff

(***************************************************************************)
(* rings-core: handle_payload and its hooks.                               *)
(***************************************************************************)
Ok == [ok |-> TRUE, err |-> "", info |-> ""]

Err(e, info) == [ok |-> FALSE, err |-> e, info |-> info]

\* One step of a handle_payload call, as seen from outside: ev names the step,
\* depth the nesting of the call (0 for the payload itself, 1 for the inner
\* messages of a MultiCall, ...).
Event(ev, p, depth) ==
    [ev |-> ev, msg |-> p.msg, addr |-> p.addr, dest |-> p.dest, depth |-> depth]

Outcome(result, trace) == [result |-> result, trace |-> trace]

\* validator.validate(handler, ctx) -> Option<String>: a validator is given by the
\* set of tags it rejects, and names the tag in its reason.
ValidatorReason(v, p) ==
    IF p.msg.tag \in v.rejects THEN "rejected:" \o p.msg.tag ELSE NoReason

validate_skip(n, p) == Ok

validate(n, p) ==
    IF rValidator[n].installed
    THEN LET info == ValidatorReason(rValidator[n], p)
         IN  IF info # NoReason THEN Err("InvalidMessage", info) ELSE Ok
    ELSE Ok

\* invoke_callback without the test of the destination.
invoke_callback_any_destination(n, p, depth) ==
    IF rCallback[n]
    THEN IF p.msg.tag = "CustomMessage"
         THEN <<Event("custom_message", p, depth)>>
         ELSE <<Event("builtin_message", p, depth)>>
    ELSE <<>>

invoke_callback_inverted(n, p, depth) ==
    IF rCallback[n]
    THEN IF p.msg.tag = "CustomMessage"
         THEN IF n # p.dest
              THEN <<Event("custom_message", p, depth)>>
              ELSE <<>>
         ELSE <<Event("builtin_message", p, depth)>>
    ELSE <<>>

\* The callback methods invoke_callback calls; it always returns Ok(()).
invoke_callback(n, p, depth) ==
    IF rCallback[n]
    THEN IF p.msg.tag = "CustomMessage"
         THEN IF n = p.dest
              THEN <<Event("custom_message", p, depth)>>
              ELSE <<>>
         ELSE <<Event("builtin_message", p, depth)>>
    ELSE <<>>

\* MessagePayload::new(message, session_manager, Stick(origin_verification),
\* payload.relay.clone()): the relay, and so the destination, is the outer one;
\* the payload is built by this node.
MessagePayloadNew(message, n, outer) ==
    Payload(message, n, outer.dest, outer.verified)

unsupported_ok(p) == Ok

\* The arm `x => Err(Error::MessageHandlerUnsupportMessageType(..))`.
unsupported(p) == Err("MessageHandlerUnsupportMessageType", p.msg.tag)

after_dispatch_always(n, p, depth, d) ==
    Outcome(Ok,
            d.trace \o <<Event("invoke_callback", p, depth)>>
                    \o invoke_callback(n, p, depth))

\* `match .. {..}?;` then invoke_callback, then Ok(()): d is the outcome of the
\* match.
after_dispatch(n, p, depth, d) ==
    IF ~d.result.ok
    THEN d
    ELSE Outcome(Ok,
                 d.trace \o <<Event("invoke_callback", p, depth)>>
                         \o invoke_callback(n, p, depth))

RECURSIVE handle_payload_at(_, _, _)

RECURSIVE multicall_from(_, _, _, _)

\* The MultiCall arm from its i-th inner message on: re-wrap (`?`), handle, and
\* drop the result (`unwrap_or(())`).
multicall_from(n, p, depth, i) ==
    IF i > Len(p.msg.inner)
    THEN Outcome(Ok, <<>>)
    ELSE LET message == p.msg.inner[i]
         IN  IF ~message.wrap
             THEN Outcome(Err("MessagePayloadNew", message.tag), <<>>)
             ELSE LET one == handle_payload_at(n, MessagePayloadNew(message, n, p),
                                               depth + 1)
                      rest == multicall_from(n, p, depth, i + 1)
                  IN  Outcome(rest.result, one.trace \o rest.trace)

\* handle_payload called at nesting depth `depth`.
handle_payload_at(n, p, depth) ==
    LET enter == <<Event("handle_payload", p, depth)>>
                 \o (IF rValidator[n].installed
                     THEN <<Event("validate", p, depth)>>
                     ELSE <<>>)
        v == validate(n, p)
    IN  IF ~v.ok
        THEN Outcome(v, enter)
        ELSE LET d == IF p.msg.tag \in HandledTags
                      THEN Outcome(IF p.msg.ok THEN Ok
                                   ELSE Err("Handler", p.msg.tag),
                                   <<Event("handle", p, depth)>>)
                      ELSE IF p.msg.tag = "MultiCall"
                      THEN multicall_from(n, p, depth, 1)
                      ELSE Outcome(unsupported(p), <<>>)
             IN  after_dispatch(n, p, depth, Outcome(d.result, enter \o d.trace))

handle_payload(n, p) == handle_payload_at(n, p, 0)

\* What callback.custom_message pushed while a call ran (the test callbacks keep
\* (ctx.addr, decrypted message)).
CustomSeen(trace) ==
    LET seen == SelectSeq(trace, LAMBDA e : e.ev = "custom_message")
    IN  [i \in 1..Len(seen) |-> <<seen[i].addr, seen[i].msg.body>>]

NoPayload == Payload(Msg("", TRUE, TRUE, "", <<>>), 0, 0, TRUE)

NoCall ==
    [called |-> FALSE, node |-> 0, payload |-> NoPayload, result |-> Ok,
     trace |-> <<>>]

Call(n, p, out) ==
    [called |-> TRUE, node |-> n, payload |-> p, result |-> out.result,
     trace |-> out.trace]

(***************************************************************************)
(* rings-core: the listeners.                                              *)
(***************************************************************************)
listen_verify_break(payload) ==
    IF ~payload.verified THEN "break" ELSE "handle"

\* listen: `if !payload.verify() { error!(..); continue; }`
listen_verify(payload) ==
    IF ~payload.verified THEN "continue" ELSE "handle"

\* listen_once: `if !payload.verify() { error!(..); }` and no return: the
\* payload goes on to handle_payload.
listen_once_verify(payload) == "handle"

listen_on_result_break(result) ==
    IF ~result.ok THEN "break" ELSE "continue"

\* listen: `if let Err(e) = self.handle_payload(&payload).await { error!(..);
\* continue; }`: the loop goes on after Ok and after Err.
listen_on_result(result) == "continue"

\* The listener of n takes the next payload off the stream and treats it as
\* `verdict` says.
TakePayload(n, verdict) ==
    LET k == rPos[n] + 1
        payload == rArrived[n][k]
        out == handle_payload(n, payload)
        next == IF verdict = "handle" THEN listen_on_result(out.result)
                ELSE verdict
    IN  /\ rPos' = [rPos EXCEPT ![n] = k]
        /\ IF verdict = "handle"
           THEN /\ rHandled' = [rHandled EXCEPT
                                  ![n] = Append(@, [k |-> k, ok |-> out.result.ok])]
                /\ rLast' = Call(n, payload, out)
                /\ rCustomLog' = [rCustomLog EXCEPT
                                    ![n] = @ \o CustomSeen(out.trace)]
           ELSE UNCHANGED <<rHandled, rLast, rCustomLog>>
        /\ rListener' = IF next = "break"
                        THEN [rListener EXCEPT ![n] = "done"]
                        ELSE rListener
        /\ UNCHANGED <<notR, rValidator, rCallback, rRuntime, rArrived, rEnded, rSent>>

\* MessageListener::listen is called (native: the task is spawned; wasm: the
\* poll is set up).
StartListen(n) ==
    /\ rListener[n] = "idle"
    /\ rListener' = [rListener EXCEPT ![n] = "running"]
    /\ UNCHANGED <<notR, rValidator, rCallback, rRuntime, rArrived, rPos, rEnded,
                   rHandled, rLast, rCustomLog, rSent>>

\* One iteration of `while let Some(payload) = payloads.next().await`.
listen(n) ==
    /\ rRuntime[n] = "native"
    /\ rListener[n] = "running"
    /\ rPos[n] < Len(rArrived[n])
    /\ TakePayload(n, listen_verify(rArrived[n][rPos[n] + 1]))

\* payloads.next() gives None: the stream has ended and the loop is left.
listen_end(n) ==
    /\ rRuntime[n] = "native"
    /\ rListener[n] = "running"
    /\ rPos[n] = Len(rArrived[n])
    /\ rEnded[n]
    /\ rListener' = [rListener EXCEPT ![n] = "done"]
    /\ UNCHANGED <<notR, rValidator, rCallback, rRuntime, rArrived, rPos, rEnded,
                   rHandled, rLast, rCustomLog, rSent>>

\* listen_once with a payload polled (with none polled it returns None and
\* changes nothing).
listen_once(n) ==
    /\ rRuntime[n] = "wasm"
    /\ rListener[n] = "running"
    /\ rPos[n] < Len(rArrived[n])
    /\ TakePayload(n, listen_once_verify(rArrived[n][rPos[n] + 1]))

\* A payload arrives on the inbound stream of n.
Deliver(n, p) ==
    /\ ~rEnded[n]
    /\ Len(rArrived[n]) < MaxArrivals
    /\ rArrived' = [rArrived EXCEPT ![n] = Append(@, p)]
    /\ UNCHANGED <<notR, rValidator, rCallback, rRuntime, rPos, rEnded, rListener,
                   rHandled, rLast, rCustomLog, rSent>>

\* The inbound stream of n ends (the swarm is dropped).
EndStream(n) ==
    /\ ~rEnded[n]
    /\ rEnded' = [rEnded EXCEPT ![n] = TRUE]
    /\ UNCHANGED <<notR, rValidator, rCallback, rRuntime, rArrived, rPos, rListener,
                   rHandled, rLast, rCustomLog, rSent>>

(***************************************************************************)
(* bns-core: identifiers and the Chord ring (routing, after the            *)
(* specification: 4.A and 4.F).                                            *)
(***************************************************************************)
\* The ring has 2^RingBits identifiers (2^160 in the program).
RingBits == 3

RingSize == 2 ^ RingBits

Did == 0..(RingSize - 1)

\* Option::None for a Did.
None == -1

\* The nodes of the bns-core network, by Did.
BNode == {1, 3, 6}

\* Did::distance(a, b) = (b - a) mod 2^160
distance(a, b) == (b - a) % RingSize

\* x lies strictly between a and b walking clockwise.
in_open(a, b, x) == 0 < distance(a, x) /\ distance(a, x) < distance(a, b)

\* x in (a, b]
in_half_open(a, b, x) == x = b \/ in_open(a, b, x)

\* finger_start(i) = id + 2^i
finger_start(id, i) == (id + 2 ^ i) % RingSize

\* The node owning identifier x: the first node at or after x.
Owner(x) ==
    CHOOSE n \in BNode : \A m \in BNode : distance(x, n) <= distance(x, m)

NoFingers == [i \in 0..(RingBits - 1) |-> None]

FixedFingers(id) == [i \in 0..(RingBits - 1) |-> Owner(finger_start(id, i))]

\* ChordAction
ChordNone == [kind |-> "None", node |-> None, remote |-> "", id |-> None]

ChordSome(node) == [kind |-> "Some", node |-> node, remote |-> "", id |-> None]

ChordRemote(next, remote, id) ==
    [kind |-> "RemoteAction", node |-> next, remote |-> remote, id |-> id]

\* The highest finger f with f in (id, target); id if there is none.
closest_preceding_finger(n, target) ==
    LET hit == {i \in 0..(RingBits - 1) :
                   bFinger[n][i] # None /\ in_open(n, target, bFinger[n][i])}
    IN  IF hit = {} THEN n
        ELSE bFinger[n][CHOOSE i \in hit : \A j \in hit : j <= i]

\* chord.find_successor(target)
find_successor(n, target) ==
    IF in_half_open(n, bSuccessor[n], target)
    THEN ChordSome(bSuccessor[n])
    ELSE IF bSuccessor[n] = n /\ bFinger[n] = NoFingers
    THEN ChordNone
    ELSE ChordRemote(closest_preceding_finger(n, target), "FindSuccessor", target)

(***************************************************************************)
(* bns-core: messages.                                                     *)
(***************************************************************************)
\* MessageRelay::new(tx_id, message_id, to_path, from_path, protocol), with the
\* positions of its parameters as stabilize passes them.
MessageRelayNew(tx_id, message_id, to_path, from_path, protocol) ==
    [tx_id |-> tx_id, message_id |-> message_id, to_path |-> to_path,
     from_path |-> from_path, protocol |-> protocol]

\* Message::<tag>(relay, <record holding did>)
BMsg(tag, relay, did) == [tag |-> tag, relay |-> relay, did |-> did]

\* The payload on the wire: the message and the address of the sender.
BPayload(message, addr) == [msg |-> message, addr |-> addr]

\* An attempt to send: swarm.send_message finds a transport for the address
\* or fails with an error.  No node holds a transport to itself.
Transports(n) == bTransport[n]

Send(n, address, message) ==
    [to |-> address, msg |-> message, ok |-> address \in Transports(n)]

\* What a handler did: its result ("Ok", "Err" or "panic"), the sends it made in
\* order, and the successor it leaves.
\* predecessor and transport are None unless the handler sets the
\* predecessor or registers a transport.
Handled(result, sends, successor) ==
    [result |-> result, sends |-> sends, successor |-> successor,
     predecessor |-> None, transport |-> None]

\* MessageHandler::send_message as the last call of a handler: its result is the
\* handler's.
send_message(n, address, message) ==
    LET s == Send(n, address, message)
    IN  Handled(IF s.ok THEN "Ok" ELSE "Err", <<s>>, bSuccessor[n])

Last(path) == path[Len(path)]

PopBack(path) == SubSeq(path, 1, Len(path) - 1)

(***************************************************************************)
(* bns-core: the handlers.                                                 *)
(***************************************************************************)
handle_find_successor(n, relay, msg) ==
    LET action == find_successor(n, msg.did)
    IN  IF action.kind = "Some"
        THEN IF relay.to_path = <<>>
             THEN Handled("panic", <<>>, bSuccessor[n])
             ELSE LET prev == Last(relay.to_path)
                      report == MessageRelayNew(relay.tx_id, relay.message_id,
                                                relay.from_path, relay.to_path,
                                                "REPORT")
                  IN  send_message(n, prev,
                                   BMsg("FoundSuccessor", report, action.node))
        ELSE IF action.kind = "RemoteAction" /\ action.remote = "FindSuccessor"
        THEN LET next == action.node
                 from_path == Append(relay.from_path, n)
                 to_path == Append(relay.to_path, next)
                 send == MessageRelayNew(relay.tx_id, relay.message_id,
                                         from_path, to_path, "SEND")
             IN  send_message(n, next, BMsg("FindSuccessor", send, action.id))
        ELSE Handled("panic", <<>>, bSuccessor[n])

handle_found_successor_sets(n, relay, msg) ==
    IF relay.protocol # "REPORT" \/ relay.to_path = <<>>
       \/ Last(relay.to_path) # n
    THEN Handled("panic", <<>>, bSuccessor[n])
    ELSE LET to_path == PopBack(relay.to_path)
         IN  IF Len(to_path) > 0
             THEN [send_message(n, Last(to_path),
                                BMsg("FoundSuccessor",
                                     MessageRelayNew(relay.tx_id, relay.message_id,
                                                     to_path, relay.from_path,
                                                     "REPORT"),
                                     msg.did))
                   EXCEPT !.successor = msg.did]
             ELSE Handled("Ok", <<>>, msg.did)

handle_found_successor(n, relay, msg) ==
    IF relay.protocol # "REPORT" \/ relay.to_path = <<>>
       \/ Last(relay.to_path) # n
    THEN Handled("panic", <<>>, bSuccessor[n])
    ELSE LET to_path == PopBack(relay.to_path)
             from_path == IF relay.from_path = <<>> THEN <<>>
                          ELSE PopBack(relay.from_path)
         IN  IF Len(to_path) > 0
             THEN LET prev == Last(to_path)
                      report == MessageRelayNew(relay.tx_id, relay.message_id,
                                                to_path, from_path, "REPORT")
                  IN  send_message(n, prev,
                                   BMsg("FoundSuccessor", report, msg.did))
             ELSE Handled("Ok", <<>>, msg.did)

\* chord.notify(pred): the predecessor the ring has afterwards.
notify(n, pred) ==
    IF bPredecessor[n] = None \/ in_open(bPredecessor[n], n, pred)
    THEN pred
    ELSE bPredecessor[n]

\* handle_notify_predecessor without the call of notify.
handle_notify_predecessor_unnotified(n, relay, msg) ==
    LET predecessor == bPredecessor[n]
        out == IF relay.to_path = <<>>
               THEN Handled("panic", <<>>, bSuccessor[n])
               ELSE LET prev == Last(relay.to_path)
                        report == MessageRelayNew(relay.tx_id, relay.message_id,
                                                  relay.to_path, relay.from_path,
                                                  "REPORT")
                    IN  send_message(n, prev,
                                     BMsg("NotifiedPredecessor", report,
                                          predecessor))
    IN  [out EXCEPT !.predecessor = predecessor]

\* The ring is notified before the path is read, so the predecessor is set
\* also when reading the path panics.
handle_notify_predecessor(n, relay, msg) ==
    LET predecessor == notify(n, msg.did)
        out == IF relay.to_path = <<>>
               THEN Handled("panic", <<>>, bSuccessor[n])
               ELSE LET prev == Last(relay.to_path)
                        report == MessageRelayNew(relay.tx_id, relay.message_id,
                                                  relay.to_path, relay.from_path,
                                                  "REPORT")
                    IN  send_message(n, prev,
                                     BMsg("NotifiedPredecessor", report,
                                          predecessor))
    IN  [out EXCEPT !.predecessor = predecessor]

handle_notified_predecessor(n, relay, msg) ==
    IF relay.protocol # "REPORT" \/ relay.to_path = <<>>
       \/ Last(relay.to_path) # n
    THEN Handled("panic", <<>>, bSuccessor[n])
    ELSE Handled("Ok", <<>>, msg.did)

(***************************************************************************)
(* bns-core: the connection handlers.  A ConnectNode carries target_id     *)
(* (did), sender_id and handshake_info; a ConnectNodeResponse and an       *)
(* AlreadyConnected carry answer_id (did), the former handshake_info too.  *)
(***************************************************************************)
\* handshake_info as the receiver finds it: an offer it can register and whose
\* peer connects, an offer whose peer never connects, or bytes that do not
\* decode.
Handshakes == {"offer", "unreachable", "garbage"}

ConnectMsg(tag, msrp, did, sender, handshake) ==
    [tag |-> tag, relay |-> msrp, did |-> did, sender |-> sender,
     handshake |-> handshake]

\* msrp.record(prev): the hop the message came from is put on from_path.
record(msrp, prev) == [msrp EXCEPT !.from_path = Append(@, prev)]

\* msrp.into(): the report for a send travels back along the hops recorded.
MsrpReport(msrp) ==
    MessageRelayNew(msrp.tx_id, msrp.message_id, msrp.from_path, msrp.to_path,
                    "REPORT")

handle_connect_node_silent(n, msrp, msg) == Handled("Ok", <<>>, bSuccessor[n])

handle_connect_node(n, msrp, msg) ==
    IF n # msg.did
    THEN LET action == find_successor(n, msg.did)
         IN  IF action.kind = "None"
             THEN Handled("Err", <<>>, bSuccessor[n])
             ELSE send_message(n, action.node,
                               ConnectMsg("ConnectNode", msrp, msg.did,
                                          msg.sender, msg.handshake))
    ELSE IF msrp.from_path = <<>>
    THEN Handled("Err", <<>>, bSuccessor[n])
    ELSE LET prev_node == Last(msrp.from_path)
         IN  IF msg.sender \notin Transports(n)
             THEN IF msg.handshake = "garbage"
                  THEN Handled("Err", <<>>, bSuccessor[n])
                  ELSE LET reply == send_message(n, prev_node,
                                        ConnectMsg("ConnectNodeResponse",
                                                   MsrpReport(msrp), n, msg.sender,
                                                   "answer"))
                       IN  IF reply.result = "Ok" /\ msg.handshake = "offer"
                           THEN [reply EXCEPT !.transport = msg.sender]
                           ELSE [reply EXCEPT !.result = "Err"]
             ELSE send_message(n, prev_node,
                               ConnectMsg("AlreadyConnected", MsrpReport(msrp), n,
                                          msg.sender, ""))

\* Neither of the two is called by handle_message.
handle_already_connected(n, msrp, msg) ==
    IF msrp.to_path # <<>>
    THEN send_message(n, Last(msrp.to_path),
                      ConnectMsg("AlreadyConnected", msrp, msg.did, msg.sender, ""))
    ELSE Handled(IF msg.did \in Transports(n) THEN "Ok" ELSE "Err", <<>>,
                 bSuccessor[n])

handle_connect_node_response(n, msrp, msg) ==
    IF msrp.to_path # <<>>
    THEN send_message(n, Last(msrp.to_path),
                      ConnectMsg("ConnectNodeResponse", msrp, msg.did, msg.sender,
                                 msg.handshake))
    ELSE Handled(IF msg.did \in Transports(n) /\ msg.handshake = "answer"
                 THEN "Ok" ELSE "Err", <<>>, bSuccessor[n])

\* handle_message(message, prev): dispatch by tag.
handle_message(n, message, prev) ==
    IF message.tag = "ConnectNode"
    THEN handle_connect_node(n, record(message.relay, prev), message)
    ELSE IF message.tag = "FindSuccessor"
    THEN handle_find_successor(n, message.relay, message)
    ELSE IF message.tag = "FoundSuccessor"
    THEN handle_found_successor(n, message.relay, message)
    ELSE IF message.tag = "NotifyPredecessor"
    THEN handle_notify_predecessor(n, message.relay, message)
    ELSE IF message.tag = "NotifiedPredecessor"
    THEN handle_notified_predecessor(n, message.relay, message)
    ELSE Handled("Err", <<>>, bSuccessor[n])

(***************************************************************************)
(* bns-core: the network.                                                  *)
(***************************************************************************)
\* The record of a call: besides what the handler did, the ring state of the
\* node as the handler found it.
NoBCall ==
    [called |-> FALSE, node |-> None, msg |-> BMsg("", <<>>, None), prev |-> None,
     action |-> ChordNone, result |-> "Ok", sends |-> <<>>,
     successor |-> None, predecessor |-> None, finger |-> NoFingers,
     transport |-> {}]

BCall(n, payload, action, out) ==
    [called |-> TRUE, node |-> n, msg |-> payload.msg, prev |-> payload.addr,
     action |-> action, result |-> out.result, sends |-> out.sends,
     successor |-> bSuccessor[n], predecessor |-> bPredecessor[n],
     finger |-> bFinger[n], transport |-> bTransport[n]]

\* The inboxes after node n has taken its first payload and made `sends`: a
\* send that found its transport arrives at the peer, with n as its sender.
RECURSIVE Arrive(_, _, _)

Arrive(inbox, n, sends) ==
    IF sends = <<>> THEN inbox
    ELSE LET s == Head(sends)
             next == IF s.ok
                     THEN [inbox EXCEPT ![s.to] = Append(@, BPayload(s.msg, n))]
                     ELSE inbox
         IN  Arrive(next, n, Tail(sends))

\* Node o asks the node d it is connected to for the successor of target.
\* The relay is built as stabilize builds its relays: to_path = [d],
\* from_path = [o], SEND.
RequestFindSuccessor(o, d, target) ==
    /\ bRequests < MaxRequests
    /\ d \in Transports(o)
    /\ LET tx == "tx" \o ToString(bRequests + 1)
           relay == MessageRelayNew(tx, "m" \o tx, <<d>>, <<o>>, "SEND")
       IN  bInbox' = [bInbox EXCEPT
                        ![d] = Append(@, BPayload(BMsg("FindSuccessor", relay,
                                                       target), o))]
    /\ bRequests' = bRequests + 1
    /\ UNCHANGED <<notB, bSuccessor, bPredecessor, bFinger, bPanicked, bLast,
                   bTransport, bFixIndex, bTicks>>

\* handle_message(&payload.data, &payload.addr) on the next payload of node n.
\* A panic of the handler ends the task that called it.
HandleMessage(n) ==
    /\ ~bPanicked[n]
    /\ bInbox[n] # <<>>
    /\ Len(Head(bInbox[n]).msg.relay.to_path) <= MaxPath
    /\ Len(Head(bInbox[n]).msg.relay.from_path) <= MaxPath
    /\ LET payload == Head(bInbox[n])
           out == handle_message(n, payload.msg, payload.addr)
           action == IF payload.msg.tag \in {"FindSuccessor", "ConnectNode"}
                     THEN find_successor(n, payload.msg.did)
                     ELSE ChordNone
       IN  /\ bInbox' = Arrive([bInbox EXCEPT ![n] = Tail(@)], n, out.sends)
           /\ bSuccessor' = [bSuccessor EXCEPT ![n] = out.successor]
           /\ bPanicked' = [bPanicked EXCEPT ![n] = (out.result = "panic")]
           /\ bPredecessor' = IF out.predecessor = None THEN bPredecessor
                              ELSE [bPredecessor EXCEPT ![n] = out.predecessor]
           /\ bTransport' = IF out.transport = None THEN bTransport
                            ELSE [bTransport EXCEPT ![n] = @ \cup {out.transport}]
           /\ bLast' = BCall(n, payload, action, out)
    /\ UNCHANGED <<notB, bFinger, bRequests, bFixIndex, bTicks>>

(***************************************************************************)
(* bns-core: the maintenance tick.                                         *)
(***************************************************************************)
\* chord.fix_fingers(): the index advances; a finger found locally is stored
\* and nothing is to be sent; a remote FindSuccessor becomes a remote
\* FindSuccessorForFix.
fix_fingers(n) ==
    LET index == (bFixIndex[n] + 1) % RingBits
        found == find_successor(n, finger_start(n, index))
    IN  [index |-> index,
         finger |-> IF found.kind = "Some"
                    THEN [bFinger[n] EXCEPT ![index] = found.node]
                    ELSE bFinger[n],
         action |-> IF found.kind = "RemoteAction"
                    THEN ChordRemote(found.node, "FindSuccessorForFix", found.id)
                    ELSE ChordNone]

\* The sends of one stabilize call, in order; their results are dropped.
stabilize(n) ==
    LET current == n
        successor == bSuccessor[n]
        relay == MessageRelayNew("", "", <<successor>>, <<current>>, "SEND")
        fix == fix_fingers(n).action
    IN  <<Send(n, current, BMsg("NotifyPredecessor", relay, current))>>
        \o IF fix.kind = "RemoteAction"
           THEN <<Send(n, fix.node,
                       BMsg("FindSuccessorForFix",
                            MessageRelayNew("", "", <<fix.node>>, <<fix.id>>,
                                            "SEND"),
                            fix.id))>>
           ELSE <<>>

\* No payload is waiting at a node that still handles payloads.
Quiet == \A m \in BNode : bInbox[m] = <<>> \/ bPanicked[m]

\* One stabilize tick of node n.  Ticks come in rounds: every node ticks once,
\* and what the ticks sent is delivered and handled, before any node ticks
\* again.
Stabilize(n) ==
    /\ bTicks[n] < MaxRounds
    /\ \A m \in BNode : bTicks[n] <= bTicks[m]
    /\ Quiet
    /\ LET sends == stabilize(n)
           fix == fix_fingers(n)
       IN  /\ bInbox' = Arrive(bInbox, n, sends)
           /\ bFinger' = [bFinger EXCEPT ![n] = fix.finger]
           /\ bFixIndex' = [bFixIndex EXCEPT ![n] = fix.index]
           /\ bLast' = [BCall(n, BPayload(BMsg("stabilize", <<>>, None), n),
                              fix.action, Handled("Ok", sends, bSuccessor[n]))
                        EXCEPT !.prev = None]
    /\ bTicks' = [bTicks EXCEPT ![n] = @ + 1]
    /\ UNCHANGED <<notB, bSuccessor, bPredecessor, bPanicked, bRequests,
                   bTransport>>

(***************************************************************************)
(* Inputs.                                                                 *)
(***************************************************************************)
Peer(n) == CHOOSE m \in Node : m # n

NotInstalled == [installed |-> FALSE, rejects |-> {}]

Validators ==
    {NotInstalled,
     [installed |-> TRUE, rejects |-> {}],
     [installed |-> TRUE, rejects |-> {"CustomMessage", "JoinSubRing"}],
     [installed |-> TRUE, rejects |-> {"MultiCall"}]}

\* Messages without inner messages.
PlainMsgs ==
    {Msg("FindSuccessorSend", TRUE, TRUE, "", <<>>),
     Msg("FindSuccessorSend", FALSE, TRUE, "", <<>>),
     Msg("CustomMessage", TRUE, TRUE, "a", <<>>),
     Msg("JoinSubRing", TRUE, TRUE, "", <<>>)}

\* Messages a MultiCall may carry: the plain ones, one that cannot be
\* re-wrapped, and a MultiCall.
InnerMsgs ==
    PlainMsgs \cup
    {Msg("FindSuccessorSend", TRUE, FALSE, "", <<>>),
     Msg("MultiCall", TRUE, TRUE, "",
         <<Msg("FindSuccessorSend", FALSE, TRUE, "", <<>>),
           Msg("CustomMessage", TRUE, TRUE, "b", <<>>)>>)}

SeqsUpTo(S, k) == UNION {[1..i -> S] : i \in 0..k}

MultiCalls ==
    {Msg("MultiCall", TRUE, TRUE, "", inner) : inner \in SeqsUpTo(InnerMsgs, MaxInner)}

\* The payloads handle_payload is called on directly.
DirectPayloads(n) ==
    {Payload(m, Peer(n), d, TRUE) :
        m \in PlainMsgs \cup MultiCalls
               \cup {Msg("CustomMessage", FALSE, TRUE, "a", <<>>)},
        d \in Node}

\* The payloads that arrive on the inbound stream of n.
StreamPayloads(n) ==
    {Payload(m, Peer(n), n, v) : m \in PlainMsgs, v \in BOOLEAN}

(***************************************************************************)
(* handle_payload called on one payload.                                   *)
(***************************************************************************)
\* The bns-core network before anything has happened: every node alone.
BOff ==
    /\ bSuccessor = [n \in BNode |-> n]
    /\ bPredecessor = [n \in BNode |-> None]
    /\ bFinger = [n \in BNode |-> NoFingers]
    /\ bInbox = [n \in BNode |-> <<>>]
    /\ bPanicked = [n \in BNode |-> FALSE]
    /\ bLast = NoBCall
    /\ bRequests = 0
    /\ bTransport = [n \in BNode |-> BNode \ {n}]
    /\ bFixIndex = [n \in BNode |-> 0]
    /\ bTicks = [n \in BNode |-> 0]

InitQuiet ==
    /\ BOff
    /\ RestOff
    /\ rRuntime = [n \in Node |-> "native"]
    /\ rArrived = [n \in Node |-> <<>>]
    /\ rPos = [n \in Node |-> 0]
    /\ rEnded = [n \in Node |-> FALSE]
    /\ rListener = [n \in Node |-> "idle"]
    /\ rHandled = [n \in Node |-> <<>>]
    /\ rLast = NoCall
    /\ rCustomLog = [n \in Node |-> <<>>]
    /\ rSent = [n \in Node |-> <<>>]

InitPayload ==
    /\ rValidator \in [Node -> Validators]
    /\ rCallback \in [Node -> BOOLEAN]
    /\ InitQuiet

\* handle_payload(p) is called on node n.
HandleDirect(n, p) ==
    /\ ~rLast.called
    /\ LET out == handle_payload(n, p)
       IN  /\ rLast' = Call(n, p, out)
           /\ rCustomLog' = [rCustomLog EXCEPT ![n] = @ \o CustomSeen(out.trace)]
    /\ UNCHANGED <<notR, rValidator, rCallback, rRuntime, rArrived, rPos, rEnded,
                   rListener, rHandled, rSent>>

NextPayload == \E n \in Node : \E p \in DirectPayloads(n) : HandleDirect(n, p)

SpecPayload == InitPayload /\ [][NextPayload]_vars

(***************************************************************************)
(* One node listening on its inbound stream.                               *)
(***************************************************************************)
\* The node whose listener runs; its peer is the source of the stream.
ListenNode == CHOOSE n \in Node : \A m \in Node : n <= m

InitListen ==
    /\ rValidator \in {[n \in Node |-> IF n = ListenNode THEN v ELSE NotInstalled] :
                           v \in {NotInstalled,
                                  [installed |-> TRUE,
                                   rejects |-> {"CustomMessage", "JoinSubRing"}]}}
    /\ rCallback = [n \in Node |-> TRUE]
    /\ rRuntime \in {[n \in Node |-> IF n = ListenNode THEN r ELSE "native"] :
                         r \in {"native", "wasm"}}
    /\ BOff
    /\ RestOff
    /\ rArrived = [n \in Node |-> <<>>]
    /\ rPos = [n \in Node |-> 0]
    /\ rEnded = [n \in Node |-> FALSE]
    /\ rListener = [n \in Node |-> "idle"]
    /\ rHandled = [n \in Node |-> <<>>]
    /\ rLast = NoCall
    /\ rCustomLog = [n \in Node |-> <<>>]
    /\ rSent = [n \in Node |-> <<>>]

NextListen ==
    \/ \E p \in StreamPayloads(ListenNode) : Deliver(ListenNode, p)
    \/ EndStream(ListenNode)
    \/ StartListen(ListenNode)
    \/ listen(ListenNode)
    \/ listen_end(ListenNode)
    \/ listen_once(ListenNode)

SpecListen == InitListen /\ [][NextListen]_vars

\* The listener task is scheduled whenever the stream has something for it.
FairSpecListen ==
    /\ InitListen
    /\ [][NextListen]_vars
    /\ WF_vars(listen(ListenNode))
    /\ WF_vars(listen_end(ListenNode))

(***************************************************************************)
(* Two directly connected rings-core nodes exchanging custom messages, as  *)
(* test_custom_message_handling and test_processor_handshake_and_msg do.   *)
(***************************************************************************)
Bodies == {"a", "b"}

\* The custom message with this body that node n sends to its peer: signed by
\* n, destination the peer.
CustomPayload(n, body) ==
    Payload(Msg("CustomMessage", TRUE, TRUE, body, <<>>), n, Peer(n), TRUE)

\* handler.send_direct_message(Message::custom(body), peer): the payload goes
\* out on the data channel between the two nodes, which delivers reliably
\* and in order, and waits in the peer's swarm until it is polled.
send_direct_message(n, body) ==
    /\ Len(rSent[n]) < MaxSends
    /\ rArrived' = [rArrived EXCEPT ![Peer(n)] = Append(@, CustomPayload(n, body))]
    /\ rSent' = [rSent EXCEPT
                   ![n] = Append(@, [to |-> Peer(n), body |-> body,
                                     early |-> rListener[Peer(n)] = "idle"])]
    /\ UNCHANGED <<notR, rValidator, rCallback, rRuntime, rPos, rEnded, rListener,
                   rHandled, rLast, rCustomLog>>

InitCustom ==
    /\ BOff
    /\ RestOff
    /\ rValidator = [n \in Node |-> NotInstalled]
    /\ rCallback = [n \in Node |-> TRUE]
    /\ rRuntime \in [Node -> {"native", "wasm"}]
    /\ rArrived = [n \in Node |-> <<>>]
    /\ rPos = [n \in Node |-> 0]
    /\ rEnded = [n \in Node |-> FALSE]
    /\ rListener = [n \in Node |-> "idle"]
    /\ rHandled = [n \in Node |-> <<>>]
    /\ rLast = NoCall
    /\ rCustomLog = [n \in Node |-> <<>>]
    /\ rSent = [n \in Node |-> <<>>]

NextCustom ==
    \/ \E n \in Node : \E body \in Bodies : send_direct_message(n, body)
    \/ \E n \in Node : StartListen(n)
    \/ \E n \in Node : listen(n)
    \/ \E n \in Node : listen_once(n)

SpecCustom == InitCustom /\ [][NextCustom]_vars

\* The spawned listener task (native) and the poll timer (wasm) keep running.
FairSpecCustom ==
    /\ SpecCustom
    /\ \A n \in Node : WF_vars(listen(n)) /\ WF_vars(listen_once(n))

(***************************************************************************)
(* The bns-core handlers on a ring of three nodes.                         *)
(***************************************************************************)
\* The rings-core handler, not in use.
ROff ==
    /\ rValidator = [n \in Node |-> NotInstalled]
    /\ rCallback = [n \in Node |-> FALSE]
    /\ rRuntime = [n \in Node |-> "native"]
    /\ rArrived = [n \in Node |-> <<>>]
    /\ rPos = [n \in Node |-> 0]
    /\ rEnded = [n \in Node |-> FALSE]
    /\ rListener = [n \in Node |-> "idle"]
    /\ rHandled = [n \in Node |-> <<>>]
    /\ rLast = NoCall
    /\ rCustomLog = [n \in Node |-> <<>>]
    /\ rSent = [n \in Node |-> <<>>]

\* The next node clockwise of n.
NextNode(n) == Owner((n + 1) % RingSize)

\* A node is alone (successor = id, no fingers), has joined (its successor is
\* the next node), or has joined and fixed its fingers.
RingStates == {"alone", "joined", "fixed"}

InitChord ==
    /\ ROff
    /\ RestOff
    /\ \E st \in [BNode -> RingStates] :
          /\ bSuccessor = [n \in BNode |->
                             IF st[n] = "alone" THEN n ELSE NextNode(n)]
          /\ bFinger = [n \in BNode |->
                          IF st[n] = "fixed" THEN FixedFingers(n) ELSE NoFingers]
    /\ bPredecessor = [n \in BNode |-> None]
    /\ bInbox = [n \in BNode |-> <<>>]
    /\ bPanicked = [n \in BNode |-> FALSE]
    /\ bLast = NoBCall
    /\ bRequests = 0
    /\ bTransport = [n \in BNode |-> BNode \ {n}]
    /\ bFixIndex = [n \in BNode |-> 0]
    /\ bTicks = [n \in BNode |-> 0]

NextChord ==
    \/ \E o, d \in BNode : \E target \in Did : RequestFindSuccessor(o, d, target)
    \/ \E n \in BNode : HandleMessage(n)

SpecChord == InitChord /\ [][NextChord]_vars

(***************************************************************************)
(* The bns-core handlers, each on messages a connected peer may send.      *)
(***************************************************************************)
\* The node before n on the ring.
PrevNode(n) == CHOOSE m \in BNode : NextNode(m) = n

\* Who holds a transport to whom: every pair, or the nodes in a line with the
\* lowest and the highest not connected.
Low == CHOOSE n \in BNode : \A m \in BNode : n <= m

High == CHOOSE n \in BNode : \A m \in BNode : m <= n

FullMesh == [n \in BNode |-> BNode \ {n}]

Line == [n \in BNode |-> IF n = Low THEN BNode \ {Low, High}
                         ELSE IF n = High THEN BNode \ {Low, High}
                         ELSE BNode \ {n}]

\* As RingStates, and "far": the successor is the node after the next one.
MessageRingStates == RingStates \cup {"far"}

\* The relays a peer prev may put on a message for n.
RelaysFor(n, prev, protocols) ==
    {MessageRelayNew("tx", "m", to_path, from_path, protocol) :
        to_path \in SeqsUpTo(BNode, MaxRelay),
        from_path \in {<<>>, <<prev>>},
        protocol \in protocols}

\* The messages a peer prev may send to n.
MessagesFor(n, prev) ==
    {BMsg(tag, relay, did) :
        tag \in {"FoundSuccessor", "NotifiedPredecessor"},
        relay \in RelaysFor(n, prev, {"SEND", "REPORT"}),
        did \in BNode}
    \cup
    {BMsg("NotifyPredecessor", relay, did) :
        relay \in RelaysFor(n, prev, {"SEND"}), did \in BNode}
    \cup
    UNION {{ConnectMsg("ConnectNode",
                       MessageRelayNew("tx", "m", <<>>, from_path, "SEND"),
                       target, sender, handshake) :
               from_path \in {<<>>, <<sender>>},
               target \in BNode, handshake \in Handshakes} :
           sender \in BNode \ {n}}
    \cup
    {ConnectMsg(tag, relay, answer, prev, "answer") :
        tag \in {"ConnectNodeResponse", "AlreadyConnected"},
        relay \in {MessageRelayNew("tx", "m", to_path, <<>>, "REPORT") :
                      to_path \in {<<>>, <<n>>, <<prev, n>>}},
        answer \in BNode \ {n}}

InitMessage ==
    /\ ROff
    /\ RestOff
    /\ \E st \in MessageRingStates :
          /\ bSuccessor = [n \in BNode |->
                             IF st = "alone" THEN n
                             ELSE IF st = "far" THEN NextNode(NextNode(n))
                             ELSE NextNode(n)]
          /\ bFinger = [n \in BNode |->
                          IF st = "fixed" THEN FixedFingers(n) ELSE NoFingers]
    /\ bPredecessor \in {[n \in BNode |-> None], [n \in BNode |-> PrevNode(n)]}
    /\ bTransport \in {FullMesh, Line}
    /\ bInbox = [n \in BNode |-> <<>>]
    /\ bPanicked = [n \in BNode |-> FALSE]
    /\ bLast = NoBCall
    /\ bRequests = 0
    /\ bFixIndex = [n \in BNode |-> 0]
    /\ bTicks = [n \in BNode |-> 0]

\* Nothing has been received or handled yet.
Fresh == ~bLast.called /\ \A m \in BNode : bInbox[m] = <<>>

\* A message of a connected peer arrives at n, the first payload of the
\* network.
Receive(n, prev, message) ==
    /\ Fresh
    /\ prev \in bTransport[n]
    /\ bInbox' = [bInbox EXCEPT ![n] = Append(@, BPayload(message, prev))]
    /\ UNCHANGED <<notB, bSuccessor, bPredecessor, bFinger, bPanicked, bLast,
                   bRequests, bTransport, bFixIndex, bTicks>>

NextMessage ==
    \/ /\ Fresh
       /\ \E n \in BNode : \E prev \in BNode \ {n} :
             \E message \in MessagesFor(n, prev) : Receive(n, prev, message)
    \/ \E n \in BNode : HandleMessage(n)

SpecMessage == InitMessage /\ [][NextMessage]_vars

(***************************************************************************)
(* Three nodes A < B < C of which A and C have joined B, stabilizing.      *)
(***************************************************************************)
Mid == CHOOSE n \in BNode : n # Low /\ n # High

\* A and C have B as successor; B has joined neither (its successor is
\* itself) or has joined them too (its successor is C).  The swarm connects
\* A and C to B, or every pair.
InitStabilize ==
    /\ ROff
    /\ RestOff
    /\ bSuccessor \in {[n \in BNode |-> IF n = Mid THEN s ELSE Mid] :
                          s \in {Mid, High}}
    /\ bPredecessor = [n \in BNode |-> None]
    /\ bFinger = [n \in BNode |-> NoFingers]
    /\ bTransport \in {FullMesh, Line}
    /\ bInbox = [n \in BNode |-> <<>>]
    /\ bPanicked = [n \in BNode |-> FALSE]
    /\ bLast = NoBCall
    /\ bRequests = 0
    /\ bFixIndex = [n \in BNode |-> 0]
    /\ bTicks = [n \in BNode |-> 0]

NextStabilize ==
    \/ \E n \in BNode : Stabilize(n)
    \/ \E n \in BNode : HandleMessage(n)

SpecStabilize == InitStabilize /\ [][NextStabilize]_vars

(***************************************************************************)
(* The bns-core node as tasks: the listener and the stabilize ticker.      *)
(***************************************************************************)
InitLocks ==
    /\ ROff
    /\ BOff
    /\ COff
    /\ POff
    /\ FOff
    /\ HOff
    /\ kProg \in [BnsTasks -> UNION {BnsPrograms(t) : t \in BnsTasks}]
    /\ \A t \in BnsTasks : kProg[t] \in BnsPrograms(t)
    /\ kPc = [t \in BnsTasks |-> 0]
    /\ kHeld = [m \in {"routing", "swarm"} |-> Free]

\* The loop of listen takes the next payload; the ticker calls stabilize again.
Again(t) ==
    /\ Finished(t)
    /\ \E prog \in BnsPrograms(t) : kProg' = [kProg EXCEPT ![t] = prog]
    /\ kPc' = [kPc EXCEPT ![t] = BnsLoopStart(t)]
    /\ UNCHANGED <<kHeld, notK>>

NextLocks ==
    \E t \in BnsTasks : Lock(t) \/ Unlock(t) \/ Step(t) \/ Again(t)

SpecLocks == InitLocks /\ [][NextLocks]_vars

(***************************************************************************)
(* The operations of one transport, called concurrently on its clones.     *)
(***************************************************************************)
InitTransportLocks ==
    /\ ROff
    /\ BOff
    /\ COff
    /\ POff
    /\ FOff
    /\ HOff
    /\ kProg \in [TransportOps -> UNION {TransportPrograms(t) : t \in TransportOps}]
    /\ \A t \in TransportOps : kProg[t] \in TransportPrograms(t)
    /\ kPc = [t \in TransportOps |-> 0]
    /\ kHeld = [m \in TransportMutexes |-> Free]

\* The operation is called again.
Recall(t) ==
    /\ Finished(t)
    /\ \E prog \in TransportPrograms(t) : kProg' = [kProg EXCEPT ![t] = prog]
    /\ kPc' = [kPc EXCEPT ![t] = 0]
    /\ UNCHANGED <<kHeld, notK>>

NextTransportLocks ==
    \E t \in TransportOps : Lock(t) \/ Unlock(t) \/ Step(t) \/ Recall(t)

SpecTransportLocks == InitTransportLocks /\ [][NextTransportLocks]_vars

(***************************************************************************)
(* connect_success_promise and wait_for_connected on one transport.        *)
(***************************************************************************)
\* The most promises made on one transport.
MaxPromises == 2

PeerStates == {"New", "Connecting", "Connected", "Disconnected", "Failed", "Closed"}

\* The states the peer connection can move to.
NextStates(st) ==
    CASE st = "New" -> {"Connecting", "Closed"}
      [] st = "Connecting" -> {"Connected", "Failed", "Closed"}
      [] st = "Connected" -> {"Disconnected", "Closed"}
      [] st = "Disconnected" -> {"Connected", "Failed", "Closed"}
      [] st = "Failed" -> {"Closed"}
      [] OTHER -> {}

\* Promise::default(): not completed, no waker.  task is where the future's
\* owner stands: it has not polled yet, it is suspended, it has been woken, or
\* the await has returned Ok or Err.
PromiseDefault ==
    [completed |-> FALSE, successed |-> "None", waker |-> FALSE, task |-> "created"]

\* if let Some(w) = s.waker.take() { completed; successed = Some(ok); w.wake() }
complete(promise, ok) ==
    IF promise.waker
    THEN [promise EXCEPT !.completed = TRUE, !.successed = ok,
                         !.waker = FALSE, !.task = "woken"]
    ELSE promise

\* The callback registered with on_peer_connection_state_change.
on_peer_connection_state_change(promise, st) ==
    CASE st = "Connected" -> complete(promise, TRUE)
      [] st = "Failed" -> complete(promise, FALSE)
      [] OTHER -> promise

\* Future::poll of a Promise.
poll(promise) ==
    IF promise.completed
    THEN [promise EXCEPT !.task = IF promise.successed = TRUE THEN "ok" ELSE "err"]
    ELSE [promise EXCEPT !.waker = TRUE, !.task = "pending"]

InitPromise ==
    /\ ROff
    /\ BOff
    /\ COff
    /\ KOff
    /\ FOff
    /\ HOff
    /\ pState \in {"New", "Connecting", "Connected", "Failed"}
    /\ pPromises = << >>
    /\ pHandler = 0

\* connect_success_promise: a new promise, its callback registered in place of
\* any earlier one, then the current state is looked at.
ConnectSuccessPromise ==
    /\ Len(pPromises) < MaxPromises
    /\ pPromises' = Append(pPromises,
                           IF pState = "Connected"
                           THEN complete(PromiseDefault, TRUE)
                           ELSE PromiseDefault)
    /\ pHandler' = Len(pPromises) + 1
    /\ UNCHANGED <<pState, notP>>

\* promise.await: the first poll, or the poll after a wake.
Poll(i) ==
    /\ i \in 1..Len(pPromises)
    /\ pPromises[i].task \in {"created", "woken"}
    /\ pPromises' = [pPromises EXCEPT ![i] = poll(@)]
    /\ UNCHANGED <<pState, pHandler, notP>>

\* The peer connection changes state and calls the registered callback.
StateChange(st) ==
    /\ st \in NextStates(pState)
    /\ pState' = st
    /\ pPromises' = IF pHandler = 0 THEN pPromises
                    ELSE [pPromises EXCEPT ![pHandler] =
                                on_peer_connection_state_change(@, st)]
    /\ UNCHANGED <<pHandler, notP>>

NextPromise ==
    \/ ConnectSuccessPromise
    \/ \E i \in 1..MaxPromises : Poll(i)
    \/ \E st \in PeerStates : StateChange(st)

SpecPromise == InitPromise /\ [][NextPromise]_vars

\* An awaited promise is polled by its executor.
FairSpecPromise == SpecPromise /\ \A i \in 1..MaxPromises : WF_vars(Poll(i))

(***************************************************************************)
(* DefaultTransport::send_message as a function of the data channel, the   *)
(* message size and what the channel's send returns.                       *)
(***************************************************************************)
\* usize, narrowed.
UsizeBits == 3

UsizeMax == 2^UsizeBits - 1

Usize == 0..UsizeMax

\* `!s` on a usize: every bit flipped.
BitNot(s) == UsizeMax - s

\* The data channel: none set up, or one in a ready state.
ChannelStates == {"None", "Connecting", "Open", "Closing", "Closed"}

SendOk(sent) == [ok |-> TRUE, sent |-> sent]

SendErr == [ok |-> FALSE, sent |-> 0]

\* What cnn.send can return: on a channel that is not Open an error; on an
\* open one the number of bytes written, or an error.
SendResults(channel) ==
    IF channel = "Open" THEN {SendOk(sent) : sent \in Usize} \cup {SendErr}
    ELSE {SendErr}

transport_send_message(channel, size, result) ==
    IF channel = "None" THEN Err("RTCDataChannelNotReady", << >>)
    ELSE IF result.ok
         THEN IF BitNot(result.sent) = size
              THEN Err("RTCDataChannelMessageIncomplete", <<result.sent, size>>)
              ELSE Ok
         ELSE IF channel # "Open"
              THEN Err("RTCDataChannelStateNotOpen", << >>)
              ELSE Err("RTCDataChannelSendTextFailed", << >>)

\* A call that has not been made yet, and the call once made.
Calling(fn, in) == [fn |-> fn, in |-> in, done |-> FALSE, out |-> << >>]

Called(fn) == fCall.fn = fn /\ fCall.done

InitSend ==
    /\ ROff
    /\ BOff
    /\ COff
    /\ KOff
    /\ POff
    /\ HOff
    /\ \E channel \in ChannelStates, size \in Usize :
          \E result \in SendResults(channel) :
              fCall = Calling("send_message",
                              [channel |-> channel, size |-> size, result |-> result])

SendMessage ==
    /\ fCall.fn = "send_message"
    /\ ~fCall.done
    /\ fCall' = [fCall EXCEPT
                     !.done = TRUE,
                     !.out = transport_send_message(fCall.in.channel, fCall.in.size,
                                                    fCall.in.result)]
    /\ UNCHANGED notF

NextSend == SendMessage

SpecSend == InitSend /\ [][NextSend]_vars

(***************************************************************************)
(* IceServer::from_str (bns-core).  A URL text is                          *)
(* scheme ":" [ "//" [ user [ ":" pass ] "@" ] host [ ":" port ] ] path,   *)
(* given by its pieces; an absent password or port is the empty sequence.  *)
(***************************************************************************)
UrlText(scheme, authority, user, pass, host, port, path) ==
    [scheme |-> scheme, authority |-> authority, user |-> user, pass |-> pass,
     host |-> host, port |-> port, path |-> path]

\* ASCII lower case, for the schemes in use.
Lower(text) ==
    CASE text = "STUN" -> "stun"
      [] text = "TURN" -> "turn"
      [] OTHER -> text

SpecialSchemes == {"http", "https", "ws", "wss", "ftp", "file"}

\* Url::parse: a text with no scheme is not an absolute URL; the scheme is
\* lower-cased; without "//" the rest is an opaque path and there is no host,
\* user, password or port; an empty host is no host, and an error for the
\* special schemes, whose empty path is "/".
UrlParse(text) ==
    LET scheme == Lower(text.scheme)
        special == scheme \in SpecialSchemes
    IN  IF text.scheme = "" \/ (special /\ text.host = "")
        THEN [ok |-> FALSE]
        ELSE IF ~text.authority /\ ~special
        THEN [ok |-> TRUE, scheme |-> scheme, has_host |-> FALSE, host |-> "",
              username |-> "", password |-> << >>, port |-> << >>,
              path |-> text.host \o text.path]
        ELSE [ok |-> TRUE, scheme |-> scheme, has_host |-> text.host # "",
              host |-> text.host, username |-> text.user, password |-> text.pass,
              port |-> text.port,
              path |-> IF special /\ text.path = "" THEN "/" ELSE text.path]

IceServer(urls, username, credential, credential_type) ==
    [urls |-> urls, username |-> username, credential |-> credential,
     credential_type |-> credential_type]

\* from_str that leaves the port out of the url.
from_str_no_port(text) ==
    LET parsed == UrlParse(text)
    IN  IF ~parsed.ok THEN Err("ParseError", << >>)
        ELSE IF parsed.scheme \notin {"turn", "stun"}
        THEN Err("scheme is not supported", << >>)
        ELSE IF ~parsed.has_host
        THEN Err("url do not has a host", << >>)
        ELSE [ok |-> TRUE, err |-> "",
              info |-> IceServer(
                  << parsed.scheme \o ":" \o parsed.host \o parsed.path >>,
                  parsed.username,
                  IF parsed.password = << >> THEN "" ELSE parsed.password[1],
                  "Password")]

\* from_str without the test for a host.
from_str_any_host(text) ==
    LET parsed == UrlParse(text)
    IN  IF ~parsed.ok THEN Err("ParseError", << >>)
        ELSE IF parsed.scheme \notin {"turn", "stun"}
        THEN Err("scheme is not supported", << >>)
        ELSE [ok |-> TRUE, err |-> "",
              info |-> IceServer(
                  << parsed.scheme \o ":" \o parsed.host
                     \o (IF parsed.port = << >> THEN ""
                         ELSE ":" \o ToString(parsed.port[1]))
                     \o parsed.path >>,
                  parsed.username,
                  IF parsed.password = << >> THEN "" ELSE parsed.password[1],
                  "Password")]

from_str(text) ==
    LET parsed == UrlParse(text)
    IN  IF ~parsed.ok THEN Err("ParseError", << >>)
        ELSE IF parsed.scheme \notin {"turn", "stun"}
        THEN Err("scheme is not supported", << >>)
        ELSE IF ~parsed.has_host
        THEN Err("url do not has a host", << >>)
        ELSE [ok |-> TRUE, err |-> "",
              info |-> IceServer(
                  << parsed.scheme \o ":" \o parsed.host
                     \o (IF parsed.port = << >> THEN ""
                         ELSE ":" \o ToString(parsed.port[1]))
                     \o parsed.path >>,
                  parsed.username,
                  IF parsed.password = << >> THEN "" ELSE parsed.password[1],
                  "Password")]

\* The URL texts tried.
UrlTexts ==
    {UrlText(scheme, authority, user, pass, host, port, path) :
        scheme \in {"stun", "turn", "STUN", "http", "stuns", ""},
        authority \in BOOLEAN,
        user \in {"", "ryan"},
        pass \in {<< >>, <<"bar">>},
        host \in {"", "ethereum.org", "stun.l.google.com"},
        port \in {<< >>, <<9090>>},
        path \in {"", "/nginx/v2"}}

InitIceServer ==
    /\ ROff
    /\ BOff
    /\ COff
    /\ KOff
    /\ POff
    /\ HOff
    /\ \E text \in UrlTexts :
          /\ text.authority \/ (text.user = "" /\ text.pass = << >> /\ text.port = << >>)
          /\ (text.pass # << >>) => text.user # ""
          /\ fCall = Calling("from_str", text)

FromStr ==
    /\ fCall.fn = "from_str"
    /\ ~fCall.done
    /\ fCall' = [fCall EXCEPT !.done = TRUE, !.out = from_str(fCall.in)]
    /\ UNCHANGED notF

NextIceServer == FromStr

SpecIceServer == InitIceServer /\ [][NextIceServer]_vars

(***************************************************************************)
(* The handshake of two DefaultTransports: get_handshake_info,             *)
(* register_remote_info, the local-candidate and ICE-state callbacks.      *)
(***************************************************************************)
Side == {"A", "B"}

OtherSide(x) == IF x = "A" THEN "B" ELSE "A"

Keys == {1, 2}

NoKey == 0

\* The address of a key, as a Did.
Address(k) == (5 * k) % RingSize

IceStates == {"New", "Checking", "Connected", "Disconnected", "Failed", "Closed"}

\* DefaultTransport::new followed by start and apply_callback: a peer
\* connection with no description, nothing gathered, no peer public key.
TransportNew(x, key) ==
    [id |-> x, key |-> key, local |-> "none", remote |-> "none",
     gathering |-> "New", ice |-> "New", pending |-> 0, call |-> "none",
     attempted |-> 0, added |-> 0, public_key |-> NoKey,
     events |-> << >>, panicked |-> FALSE]

\* A signature of a session of key k over data.
Sign(k, data) == [signer |-> k, over |-> data]

\* MessagePayload::new_direct with the session of key k: the data, signed, with
\* the authorizer's address as addr.
new_direct(data, k) ==
    [data |-> data, addr |-> Address(k), session |-> k, sig |-> Sign(k, data)]

\* resp.gzip(9)?.encode()?
encode_gzip(level, payload) ==
    [encoding |-> "base58", gzip |-> level, body |-> payload]

\* data.decode(): the text must be an encoding; a gzipped body is inflated.
decode(encoded) ==
    IF encoded.encoding = "base58"
    THEN [ok |-> TRUE, payload |-> encoded.body]
    ELSE [ok |-> FALSE, payload |-> << >>]

\* payload.verify(): the signature is the session's over the data carried.
verify(payload) == payload.sig = Sign(payload.session, payload.data)

\* An SDP as JSON text, and the candidates as a sequence saying of each one
\* whether the peer connection will take it.
Trickle(type, valid, candidates) ==
    [sdp |-> [type |-> type, valid |-> valid], candidates |-> candidates]

\* get_offer / get_answer up to the await of ICE gathering: the description is
\* created and set as the local one.  An offer needs a connection with no
\* description yet, an answer one holding a remote offer.
get_description(t, kind) ==
    IF kind = "offer" /\ ~(t.local = "none" /\ t.remote = "none")
    THEN [result |-> Err("RTCPeerConnectionCreateOfferFailed", << >>), t |-> t]
    ELSE IF kind = "answer" /\ ~(t.local = "none" /\ t.remote = "offer")
    THEN [result |-> Err("RTCPeerConnectionCreateAnswerFailed", << >>), t |-> t]
    ELSE [result |-> Ok,
          t |-> [t EXCEPT !.local = kind, !.call = kind,
                          !.gathering = IF @ = "New" THEN "Gathering" ELSE @]]

\* get_handshake_info that signs the description before the candidates are put
\* into the bundle.
get_handshake_info_unsigned_candidates(t) ==
    IF t.pending = 0
    THEN [result |-> Err("FailedOnGatherLocalCandidate", << >>),
          t |-> [t EXCEPT !.call = "none"]]
    ELSE [result |->
              [ok |-> TRUE, err |-> "",
               info |-> [encode_gzip(9, new_direct(Trickle(t.call, TRUE, << >>), t.key))
                            EXCEPT !.body.data.candidates =
                                       [i \in 1..t.pending |-> TRUE]]],
          t |-> [t EXCEPT !.call = "none"]]

\* get_handshake_info after gathering: the pending candidates are bundled with
\* the description, signed and encoded.
get_handshake_info(t) ==
    IF t.pending = 0
    THEN [result |-> Err("FailedOnGatherLocalCandidate", << >>),
          t |-> [t EXCEPT !.call = "none"]]
    ELSE [result |->
              [ok |-> TRUE, err |-> "",
               info |-> encode_gzip(9, new_direct(
                            Trickle(t.call, TRUE, [i \in 1..t.pending |-> TRUE]),
                            t.key))],
          t |-> [t EXCEPT !.call = "none"]]

\* set_remote_description: the peer connection takes an offer when it has no
\* description, and an answer when it has made an offer.
set_remote_description(t, sdp) ==
    IF \/ sdp.type = "offer" /\ t.local = "none" /\ t.remote = "none"
       \/ sdp.type = "answer" /\ t.local = "offer" /\ t.remote = "none"
    THEN [ok |-> TRUE, t |-> [t EXCEPT !.remote = sdp.type]]
    ELSE [ok |-> FALSE, t |-> t]

\* The candidates of a bundle the peer connection takes.
Taken(candidates) == Cardinality({i \in DOMAIN candidates : candidates[i]})

\* The candidates before the first one that is refused, and that one.
UpToRefused(candidates) ==
    IF \A i \in DOMAIN candidates : candidates[i] THEN candidates
    ELSE SubSeq(candidates, 1,
                CHOOSE i \in DOMAIN candidates :
                    /\ ~candidates[i]
                    /\ \A j \in 1..(i - 1) : candidates[j])

\* register_remote_info that gives up at the first candidate that is refused.
register_remote_info_stops(t, encoded) ==
    LET d == decode(encoded)
        payload == d.payload
        set == set_remote_description(t, payload.data.sdp)
        tried == UpToRefused(payload.data.candidates)
    IN  IF ~d.ok THEN [result |-> Err("Decode", << >>), t |-> t]
        ELSE IF ~verify(payload)
        THEN [result |-> Err("VerifySignatureFailed", << >>), t |-> t]
        ELSE IF ~payload.data.sdp.valid
        THEN [result |-> Err("Deserialize", << >>), t |-> t]
        ELSE IF ~set.ok
        THEN [result |-> Err("RTCPeerConnectionSetRemoteDescFailed", << >>), t |-> t]
        ELSE [result |-> [ok |-> TRUE, err |-> "", info |-> payload.addr],
              t |-> [set.t EXCEPT
                        !.attempted = @ + Len(tried),
                        !.added = @ + Taken(tried),
                        !.public_key = payload.session]]

register_remote_info(t, encoded) ==
    LET d == decode(encoded)
        payload == d.payload
        set == set_remote_description(t, payload.data.sdp)
    IN  IF ~d.ok THEN [result |-> Err("Decode", << >>), t |-> t]
        ELSE IF ~verify(payload)
        THEN [result |-> Err("VerifySignatureFailed", << >>), t |-> t]
        ELSE IF ~payload.data.sdp.valid
        THEN [result |-> Err("Deserialize", << >>), t |-> t]
        ELSE IF ~set.ok
        THEN [result |-> Err("RTCPeerConnectionSetRemoteDescFailed", << >>), t |-> t]
        ELSE [result |-> [ok |-> TRUE, err |-> "", info |-> payload.addr],
              t |-> [set.t EXCEPT
                        !.attempted = @ + Len(payload.data.candidates),
                        !.added = @ + Taken(payload.data.candidates),
                        !.public_key = payload.session]]

TransportEvent(event, did, id) == [event |-> event, did |-> did, id |-> id]

\* The callback of on_ice_connection_state_change: public_key.read().unwrap()
\* panics when no key is recorded.
on_ice_connection_state_change(t, cs) ==
    LET emit(event) ==
            IF t.public_key = NoKey THEN [t EXCEPT !.panicked = TRUE]
            ELSE [t EXCEPT !.events =
                      Append(@, TransportEvent(event, Address(t.public_key), t.id))]
    IN  CASE cs = "Connected" -> emit("RegisterTransport")
          [] cs \in {"Failed", "Disconnected", "Closed"} -> emit("ConnectClosed")
          [] OTHER -> t

\* What a transport may be handed as remote info: what get_handshake_info
\* returned; the same with its data altered after signing; bundles its signer
\* signed with an SDP that does not parse or with candidates that will be
\* refused; and text that is no encoding.
Garbage == [encoding |-> "none", gzip |-> 0, body |-> << >>]

Altered(encoded) ==
    [encoded EXCEPT !.body.data.candidates = << >>]

SignedLike(encoded, valid, candidates) ==
    encode_gzip(9, new_direct(Trickle(encoded.body.data.sdp.type, valid, candidates),
                              encoded.body.session))

RemoteInfos ==
    hWire
    \cup {Altered(e) : e \in hWire}
    \cup {SignedLike(e, FALSE, e.body.data.candidates) : e \in hWire}
    \cup {SignedLike(e, TRUE, [i \in DOMAIN e.body.data.candidates |-> i # 1]) :
             e \in hWire}
    \cup {Garbage}

HCall(op, side, arg, result) ==
    [op |-> op, side |-> side, arg |-> arg, result |-> result]

InitHandshake ==
    /\ ROff
    /\ BOff
    /\ COff
    /\ KOff
    /\ POff
    /\ FOff
    /\ \E key \in [Side -> Keys] :
          /\ key["A"] # key["B"]
          /\ hT = [x \in Side |-> TransportNew(x, key[x])]
    /\ hWire = {}
    /\ hLast = HCall("new", "A", << >>, Ok)

\* get_handshake_info is called: the description is made and set.
GetHandshakeInfo(x, kind) ==
    /\ hT[x].call = "none"
    /\ hT[x].ice # "Closed"
    /\ LET got == get_description(hT[x], kind)
       IN  /\ hT' = [hT EXCEPT ![x] = got.t]
           /\ hLast' = HCall("get_description", x, kind, got.result)
    /\ UNCHANGED <<hWire, notH>>

\* The local-candidate callback buffers a candidate.
OnIceCandidate(x) ==
    /\ hT[x].gathering = "Gathering"
    /\ hT[x].pending < MaxCandidates
    /\ hT' = [hT EXCEPT ![x].pending = @ + 1]
    /\ hLast' = HCall("on_ice_candidate", x, << >>, Ok)
    /\ UNCHANGED <<hWire, notH>>

\* Gathering ends, with the host candidates at least.
GatheringComplete(x) ==
    /\ hT[x].gathering = "Gathering"
    /\ hT[x].pending > 0
    /\ hT' = [hT EXCEPT ![x].gathering = "Complete"]
    /\ hLast' = HCall("gathering_complete", x, << >>, Ok)
    /\ UNCHANGED <<hWire, notH>>

\* get_handshake_info that does not wait for the end of gathering.
GetHandshakeInfoReturn_early(x) ==
    /\ hT[x].call # "none"
    /\ LET got == get_handshake_info(hT[x])
       IN  /\ hT' = [hT EXCEPT ![x] = got.t]
           /\ hWire' = IF got.result.ok THEN hWire \cup {got.result.info} ELSE hWire
           /\ hLast' = HCall("get_handshake_info", x, hT[x].call, got.result)
    /\ UNCHANGED notH

\* gather_complete.recv() has returned: get_handshake_info goes on and returns.
GetHandshakeInfoReturn(x) ==
    /\ hT[x].call # "none"
    /\ hT[x].gathering = "Complete"
    /\ LET got == get_handshake_info(hT[x])
       IN  /\ hT' = [hT EXCEPT ![x] = got.t]
           /\ hWire' = IF got.result.ok THEN hWire \cup {got.result.info} ELSE hWire
           /\ hLast' = HCall("get_handshake_info", x, hT[x].call, got.result)
    /\ UNCHANGED notH

RegisterRemoteInfo(x, encoded) ==
    /\ hT[x].ice # "Closed"
    /\ LET got == register_remote_info(hT[x], encoded)
       IN  /\ hT' = [hT EXCEPT ![x] = got.t]
           /\ hLast' = HCall("register_remote_info", x, encoded, got.result)
    /\ UNCHANGED <<hWire, notH>>

\* The ICE agent moves: it starts checking once both descriptions are set,
\* connects once the peer checks too, may fail, and may lose the connection.
IceMoves(x, cs) ==
    CASE cs = "Checking" ->
            hT[x].ice = "New" /\ hT[x].local # "none" /\ hT[x].remote # "none"
      [] cs = "Connected" ->
            hT[x].ice = "Checking" /\ hT[OtherSide(x)].ice \in {"Checking", "Connected"}
      [] cs = "Failed" -> hT[x].ice \in {"Checking", "Disconnected"}
      [] cs = "Disconnected" -> hT[x].ice = "Connected"
      [] OTHER -> FALSE

IceChange(x, cs) ==
    /\ IceMoves(x, cs)
    /\ hT' = [hT EXCEPT ![x] = on_ice_connection_state_change([@ EXCEPT !.ice = cs], cs)]
    /\ hLast' = HCall("ice", x, cs, Ok)
    /\ UNCHANGED <<hWire, notH>>

\* close(): the peer connection is closed and its ICE state becomes Closed.
Close(x) ==
    /\ hT[x].ice # "Closed"
    /\ hT' = [hT EXCEPT ![x] =
                  on_ice_connection_state_change([@ EXCEPT !.ice = "Closed"], "Closed")]
    /\ hLast' = HCall("ice", x, "Closed", Ok)
    /\ UNCHANGED <<hWire, notH>>

NextHandshake ==
    \E x \in Side :
        \/ \E kind \in {"offer", "answer"} : GetHandshakeInfo(x, kind)
        \/ OnIceCandidate(x)
        \/ GatheringComplete(x)
        \/ GetHandshakeInfoReturn(x)
        \/ \E encoded \in RemoteInfos : RegisterRemoteInfo(x, encoded)
        \/ \E cs \in IceStates : IceChange(x, cs)
        \/ Close(x)

SpecHandshake == InitHandshake /\ [][NextHandshake]_vars

\* The handshake of tests::establish_connection: A makes an offer, B registers
\* it and makes an answer, A registers the answer; the peers can reach each
\* other.
NextEstablish ==
    \/ /\ hT["A"].local = "none"
       /\ GetHandshakeInfo("A", "offer")
    \/ /\ hT["B"].remote = "none"
       /\ \E encoded \in hWire :
             /\ encoded.body.data.sdp.type = "offer"
             /\ RegisterRemoteInfo("B", encoded)
    \/ /\ hT["B"].remote = "offer"
       /\ hT["B"].local = "none"
       /\ GetHandshakeInfo("B", "answer")
    \/ /\ hT["A"].remote = "none"
       /\ \E encoded \in hWire :
             /\ encoded.body.data.sdp.type = "answer"
             /\ RegisterRemoteInfo("A", encoded)
    \/ \E x \in Side :
          \/ OnIceCandidate(x)
          \/ GatheringComplete(x)
          \/ GetHandshakeInfoReturn(x)
          \/ IceChange(x, "Checking")
          \/ IceChange(x, "Connected")

\* The runtime runs whatever can run.
FairSpecEstablish ==
    InitHandshake /\ [][NextEstablish]_vars /\ WF_vars(NextEstablish)

(***************************************************************************)
(* rings-core: joining a sub ring (subring.rs).  The ring (join_subring),  *)
(* the relay header and the swarm's send are outside the handler: the      *)
(* ring's answer and the outcome of the send are inputs.                   *)
(***************************************************************************)
SubRingIds == {2, 5}

\* Message::JoinSubRing(JoinSubRing { did })
JoinSubRing(did) == [tag |-> "JoinSubRing", did |-> did]

\* MessageRelay: the method, the path travelled so far, the next hop and the
\* destination.
SubRelay(method, path, next_hop, destination) ==
    [method |-> method, path |-> path, next_hop |-> next_hop,
     destination |-> destination]

\* relay.relay(current, Some(next)) on a SEND: the current node is appended
\* to the path and the next hop is set.
relay_relay(header, current, next) ==
    [header EXCEPT !.path = Append(@, current), !.next_hop = next]

\* relay.reset_destination(next)
reset_destination(header, next) == [header EXCEPT !.destination = next]

\* A payload of the sub ring protocol and an attempt to send one.
SubPayload(data, header) == [data |-> data, relay |-> header]

SubSend(to, payload) == [to |-> to, payload |-> payload]

\* What an operation did: its result and the payloads it handed to the swarm.
SubOut(result, sends) == [result |-> result, sends |-> sends]

\* send_direct_message(msg, next): a fresh SEND header from this node to next.
send_direct_join(n, message, next, sent) ==
    SubOut(sent, << SubSend(next, SubPayload(message,
                                SubRelay("SEND", <<n>>, next, next))) >>)

\* transpond_payload(ctx, relay): the received data under the new header, to
\* the header's next hop.
transpond_payload(n, ctx, header, sent) ==
    SubOut(sent, << SubSend(header.next_hop, SubPayload(ctx.data, header)) >>)

\* The answers of PeerRing::join_subring: an action of the ring or an error.
JoinSubRingAnswers ==
    {[ok |-> TRUE, err |-> "", info |-> a] :
        a \in {ChordNone}
              \cup {ChordSome(m) : m \in BNode}
              \cup {ChordRemote(m, r, rid) :
                       m \in BNode, r \in {"FindAndJoinSubRing", "FindSuccessor"},
                       rid \in SubRingIds}}
    \cup {Err(e, << >>) : e \in {"CannotFindSuccessor", "SubRingNotFound"}}

\* The outcomes of a send through the swarm.
SubSendResults == {Ok, Err("PeerNotFound", << >>)}

\* Swarm::subring_join(name), given the ring's answer for the name's Did.
subring_join(n, answer, sent) ==
    IF ~answer.ok THEN SubOut(answer, << >>)
    ELSE IF answer.info.kind = "RemoteAction"
            /\ answer.info.remote = "FindAndJoinSubRing"
    THEN send_direct_join(n, JoinSubRing(answer.info.id), answer.info.node, sent)
    ELSE IF answer.info.kind = "None" THEN SubOut(Ok, << >>)
    ELSE SubOut(Err("PeerRingUnexpectedAction", answer.info), << >>)

\* The JoinSubRing handler without the relay step.
handle_join_subring_unrelayed(n, ctx, answer, sent) ==
    IF ~answer.ok THEN SubOut(answer, << >>)
    ELSE IF answer.info.kind = "RemoteAction"
            /\ answer.info.remote = "FindAndJoinSubRing"
    THEN LET next == answer.info.node
             forwarded == reset_destination(
                              [ctx.relay EXCEPT !.next_hop = next], next)
         IN  transpond_payload(n, ctx, forwarded, sent)
    ELSE IF answer.info.kind = "None" THEN SubOut(Ok, << >>)
    ELSE SubOut(Err("PeerRingUnexpectedAction", answer.info), << >>)

\* HandleMsg<JoinSubRing>::handle(ctx, msg), given the ring's answer for
\* (relay.origin(), msg.did).
handle_join_subring(n, ctx, answer, sent) ==
    IF ~answer.ok THEN SubOut(answer, << >>)
    ELSE IF answer.info.kind = "RemoteAction"
            /\ answer.info.remote = "FindAndJoinSubRing"
    THEN LET next == answer.info.node
             forwarded == reset_destination(relay_relay(ctx.relay, n, next), next)
         IN  transpond_payload(n, ctx, forwarded, sent)
    ELSE IF answer.info.kind = "None" THEN SubOut(Ok, << >>)
    ELSE SubOut(Err("PeerRingUnexpectedAction", answer.info), << >>)

\* The JoinSubRing payloads a node receives: sent directly by their origin or
\* forwarded once.
JoinSubRingPayloads(n) ==
    {SubPayload(JoinSubRing(did), SubRelay("SEND", path, n, n)) :
        did \in SubRingIds,
        path \in {<<o>> : o \in BNode \ {n}}
                 \cup {<<o, m>> : o \in BNode \ {n}, m \in BNode \ {n}}}

NoCtx == SubPayload(JoinSubRing(None), SubRelay("SEND", << >>, None, None))

SubCall(n, ctx, answer, sent) ==
    [n |-> n, ctx |-> ctx, answer |-> answer, sent |-> sent]

InitSubRing ==
    /\ ROff
    /\ BOff
    /\ COff
    /\ KOff
    /\ POff
    /\ HOff
    /\ \E n \in BNode, answer \in JoinSubRingAnswers, sent \in SubSendResults :
          \/ fCall = Calling("subring_join", SubCall(n, NoCtx, answer, sent))
          \/ \E ctx \in JoinSubRingPayloads(n) :
                fCall = Calling("handle_join_subring",
                                SubCall(n, ctx, answer, sent))

SubringJoin ==
    /\ fCall.fn = "subring_join"
    /\ ~fCall.done
    /\ fCall' = [fCall EXCEPT !.done = TRUE,
                              !.out = subring_join(fCall.in.n, fCall.in.answer,
                                                   fCall.in.sent)]
    /\ UNCHANGED notF

HandleJoinSubRing ==
    /\ fCall.fn = "handle_join_subring"
    /\ ~fCall.done
    /\ fCall' = [fCall EXCEPT !.done = TRUE,
                              !.out = handle_join_subring(
                                          fCall.in.n, fCall.in.ctx,
                                          fCall.in.answer, fCall.in.sent)]
    /\ UNCHANGED notF

NextSubRing == SubringJoin \/ HandleJoinSubRing

SpecSubRing == InitSubRing /\ [][NextSubRing]_vars

(***************************************************************************)
(* bns-core: ConnectNode requests of one sender, addressed to this node,   *)
(* handled by several handle_message calls at once.  A call is a task that *)
(* moves from await to await; the ring guard taken in handle_message       *)
(* (line 41) is held to its end.                                           *)
(***************************************************************************)
MaxConnects == 2

ConnTasks == 1..MaxConnects

\* The transport the swarm held for the sender before the requests, if any.
OldTransport == 0

ConnTask(pc, trans, result) == [pc |-> pc, trans |-> trans, result |-> result]

ConnEvent(task, ev, trans) == [task |-> task, ev |-> ev, trans |-> trans]

\* The transports made so far.
Created == {i \in DOMAIN cLog : cLog[i].ev = "new_transport"}

\* A `?` on an error: the call goes to its end with the error.
Raise(t) == [cTask EXCEPT ![t].pc = "return", ![t].result = "Err"]

InitConnect ==
    /\ ROff
    /\ BOff
    /\ KOff
    /\ POff
    /\ FOff
    /\ HOff
    /\ cTask = [t \in ConnTasks |-> ConnTask("called", None, "")]
    /\ cRing = 0
    /\ cTable \in {None, OldTransport}
    /\ cLog = << >>

\* handle_message, line 41: the ring mutex is locked; the guard lives to the end
\* of handle_message.
ConnectLock(t) ==
    /\ cTask[t].pc = "called"
    /\ cRing = 0
    /\ cRing' = t
    /\ cTask' = [cTask EXCEPT ![t].pc = "get_transport"]
    /\ UNCHANGED <<cTable, cLog, notC>>

\* Line 80: match self.swarm.get_transport(&msg.sender_id)
GetTransport(t) ==
    /\ cTask[t].pc = "get_transport"
    /\ cTask' = [cTask EXCEPT ![t].pc = IF cTable = None THEN "new_transport"
                                       ELSE "already"]
    /\ UNCHANGED <<cRing, cTable, cLog, notC>>

\* Line 82: self.swarm.new_transport().await?
NewTransport(t, ok) ==
    /\ cTask[t].pc = "new_transport"
    /\ IF ok
       THEN LET id == Cardinality(Created) + 1
            IN  /\ cTask' = [cTask EXCEPT ![t].pc = "negotiate", ![t].trans = id]
                /\ cLog' = Append(cLog, ConnEvent(t, "new_transport", id))
       ELSE cTask' = Raise(t) /\ UNCHANGED cLog
    /\ UNCHANGED <<cRing, cTable, notC>>

\* Lines 83-90: register_remote_info(..).await? and get_handshake_info(..).await?
\* on the task's own transport.
Negotiate(t, ok) ==
    /\ cTask[t].pc = "negotiate"
    /\ cTask' = IF ok THEN [cTask EXCEPT ![t].pc = "respond"] ELSE Raise(t)
    /\ UNCHANGED <<cRing, cTable, cLog, notC>>

\* Lines 92-102: send_message(prev_node, ConnectNodeResponse(..)).await?
Respond(t, ok) ==
    /\ cTask[t].pc = "respond"
    /\ IF ok
       THEN /\ cTask' = [cTask EXCEPT ![t].pc = "wait_for_connected"]
            /\ cLog' = Append(cLog, ConnEvent(t, "ConnectNodeResponse",
                                              cTask[t].trans))
       ELSE cTask' = Raise(t) /\ UNCHANGED cLog
    /\ UNCHANGED <<cRing, cTable, notC>>

\* Line 104: trans.wait_for_connected(20, 3).await?
WaitForConnected(t, ok) ==
    /\ cTask[t].pc = "wait_for_connected"
    /\ cTask' = IF ok THEN [cTask EXCEPT ![t].pc = "get_or_register"] ELSE Raise(t)
    /\ cLog' = Append(cLog, ConnEvent(t, IF ok THEN "connected" ELSE "failed",
                                      cTask[t].trans))
    /\ UNCHANGED <<cRing, cTable, notC>>

\* Line 105: self.swarm.get_or_register(&msg.sender_id, trans): the table
\* keeps the transport it has, or takes this one.
GetOrRegister(t) ==
    /\ cTask[t].pc = "get_or_register"
    /\ IF cTable = None
       THEN /\ cTable' = cTask[t].trans
            /\ cLog' = Append(cLog, ConnEvent(t, "registered", cTask[t].trans))
       ELSE UNCHANGED <<cTable, cLog>>
    /\ cTask' = [cTask EXCEPT ![t].pc = "return", ![t].result = "Ok"]
    /\ UNCHANGED <<cRing, notC>>

\* Lines 110-116: send_message(prev_node, AlreadyConnected(..)).await
AnswerAlreadyConnected(t, ok) ==
    /\ cTask[t].pc = "already"
    /\ cTask' = [cTask EXCEPT ![t].pc = "return",
                              ![t].result = IF ok THEN "Ok" ELSE "Err"]
    /\ cLog' = IF ok THEN Append(cLog, ConnEvent(t, "AlreadyConnected", cTable))
               ELSE cLog
    /\ UNCHANGED <<cRing, cTable, notC>>

\* handle_message returns: the ring guard is dropped.
ConnectReturn(t) ==
    /\ cTask[t].pc = "return"
    /\ cRing' = 0
    /\ cTask' = [cTask EXCEPT ![t].pc = "done"]
    /\ UNCHANGED <<cTable, cLog, notC>>

NextConnect ==
    \E t \in ConnTasks :
        \/ ConnectLock(t)
        \/ GetTransport(t)
        \/ \E ok \in BOOLEAN : NewTransport(t, ok)
        \/ \E ok \in BOOLEAN : Negotiate(t, ok)
        \/ \E ok \in BOOLEAN : Respond(t, ok)
        \/ \E ok \in BOOLEAN : WaitForConnected(t, ok)
        \/ GetOrRegister(t)
        \/ \E ok \in BOOLEAN : AnswerAlreadyConnected(t, ok)
        \/ ConnectReturn(t)

SpecConnect == InitConnect /\ [][NextConnect]_vars

(***************************************************************************)
(* bns-core: one NotifyPredecessor of a connected peer, for every          *)
(* predecessor the node may have and every identifier it may be told.      *)
(***************************************************************************)
\* The relays of a NotifyPredecessor: stabilize puts the sender on to_path.
NotifyRelays(prev) ==
    {MessageRelayNew("tx", "m", to_path, <<prev>>, "SEND") :
        to_path \in {<< >>, <<prev>>}}

InitNotify ==
    /\ ROff
    /\ RestOff
    /\ bSuccessor = [n \in BNode |-> NextNode(n)]
    /\ bFinger = [n \in BNode |-> NoFingers]
    /\ \E p \in Did \cup {None} : bPredecessor = [n \in BNode |-> p]
    /\ bTransport = FullMesh
    /\ bInbox = [n \in BNode |-> <<>>]
    /\ bPanicked = [n \in BNode |-> FALSE]
    /\ bLast = NoBCall
    /\ bRequests = 0
    /\ bFixIndex = [n \in BNode |-> 0]
    /\ bTicks = [n \in BNode |-> 0]

NextNotify ==
    \/ /\ Fresh
       /\ \E n \in BNode : \E prev \in BNode \ {n} :
             \E relay \in NotifyRelays(prev), did \in Did :
                Receive(n, prev, BMsg("NotifyPredecessor", relay, did))
    \/ \E n \in BNode : HandleMessage(n)

SpecNotify == InitNotify /\ [][NextNotify]_vars

(***************************************************************************)
(* Reading a trace.                                                        *)
(***************************************************************************)
CallbackEvents == {"invoke_callback", "custom_message", "builtin_message"}

Rejects(n, p) ==
    rValidator[n].installed /\ ValidatorReason(rValidator[n], p) # NoReason

\* The events named ev of the call at nesting depth `depth`.
EventsAt(trace, ev, depth) ==
    SelectSeq(trace, LAMBDA e : e.ev = ev /\ e.depth = depth)

\* The position of the first event named ev at depth 0 (0 when there is none).
FirstAt0(trace, ev) ==
    LET at == {i \in 1..Len(trace) : trace[i].ev = ev /\ trace[i].depth = 0}
    IN  IF at = {} THEN 0 ELSE CHOOSE i \in at : \A j \in at : i <= j

(***************************************************************************)
(* C5: in handle_payload the validator runs before dispatch.  If a         *)
(* validator is installed and gives a reason for the payload, the call     *)
(* returns InvalidMessage with that reason, and neither a handler nor a    *)
(* callback runs for it (nor, for a MultiCall, for its inner messages).    *)
(* With no validator, or no reason, dispatch proceeds: a tag with a        *)
(* dispatch arm reaches its handler, after the validator has run.  No      *)
(* handler or callback ever runs, at any nesting depth, for a message the  *)
(* validator rejects.                                                      *)
(***************************************************************************)
C5_ValidatorBeforeDispatch ==
    rLast.called =>
        LET n == rLast.node
            p == rLast.payload
            t == rLast.trace
        IN  /\ Rejects(n, p) =>
                /\ rLast.result
                     = Err("InvalidMessage", ValidatorReason(rValidator[n], p))
                /\ \A i \in 1..Len(t) : t[i].ev \in {"handle_payload", "validate"}
                /\ Len(t) = 2
            /\ ~Rejects(n, p) =>
                /\ rLast.result.err # "InvalidMessage"
                /\ p.msg.tag \in HandledTags =>
                       /\ FirstAt0(t, "handle") > 0
                       /\ rValidator[n].installed =>
                              /\ FirstAt0(t, "validate") > 0
                              /\ FirstAt0(t, "validate") < FirstAt0(t, "handle")
            /\ \A i \in 1..Len(t) :
                   t[i].ev \in CallbackEvents \cup {"handle"} =>
                       ~(rValidator[n].installed
                         /\ t[i].msg.tag \in rValidator[n].rejects)

\* A validator gave a reason for a payload whose tag has a handler.
C5_Witness ==
    /\ rLast.called
    /\ Rejects(rLast.node, rLast.payload)
    /\ rLast.payload.msg.tag = "CustomMessage"
    /\ rCallback[rLast.node]
    /\ rLast.result.err = "InvalidMessage"

(***************************************************************************)
(* C6: in handle_payload invoke_callback runs after the dispatched handler *)
(* and only when the dispatch returned success: exactly once for the       *)
(* payload when it did, never when the handler returned an error or the    *)
(* tag is unsupported.  At every nesting depth a callback step follows a   *)
(* handler that succeeded on the same message.  With a callback installed  *)
(* exactly one callback method runs per invoke_callback, except for a      *)
(* custom message addressed to another node, for which none runs.          *)
(***************************************************************************)
C6_CallbackAfterSuccess ==
    rLast.called =>
        LET n == rLast.node
            p == rLast.payload
            t == rLast.trace
            hooks == Len(EventsAt(t, "invoke_callback", 0))
            methods == Len(EventsAt(t, "custom_message", 0))
                       + Len(EventsAt(t, "builtin_message", 0))
        IN  /\ hooks = IF rLast.result.ok THEN 1 ELSE 0
            /\ (p.msg.tag \in HandledTags /\ ~Rejects(n, p)) =>
                   (rLast.result.ok <=> p.msg.ok)
            /\ (p.msg.tag \notin HandledTags \cup {"MultiCall"}) =>
                   ~rLast.result.ok
            /\ (rLast.result.ok /\ p.msg.tag \in HandledTags) =>
                   /\ FirstAt0(t, "handle") > 0
                   /\ FirstAt0(t, "handle") < FirstAt0(t, "invoke_callback")
            /\ rLast.result.ok => t[Len(t)].ev \in CallbackEvents
            /\ methods = IF /\ rLast.result.ok
                            /\ rCallback[n]
                            /\ (p.msg.tag = "CustomMessage" => p.dest = n)
                         THEN 1 ELSE 0
            /\ \A i \in 1..Len(t) :
                   (t[i].ev \in CallbackEvents /\ t[i].msg.tag # "MultiCall") =>
                       /\ t[i].msg.tag \in HandledTags
                       /\ t[i].msg.ok
                       /\ \E j \in 1..(i - 1) :
                              /\ t[j].ev = "handle"
                              /\ t[j].msg = t[i].msg
                              /\ t[j].depth = t[i].depth

\* A handler succeeded and the custom callback ran once, after it.
C6_Witness ==
    /\ rLast.called
    /\ rLast.result.ok
    /\ rLast.payload.msg.tag = "CustomMessage"
    /\ Len(EventsAt(rLast.trace, "custom_message", 0)) = 1

\* A handler failed and no callback ran.
C6_WitnessErr ==
    /\ rLast.called
    /\ rCallback[rLast.node]
    /\ rLast.result.err = "Handler"
    /\ EventsAt(rLast.trace, "invoke_callback", 0) = <<>>

(***************************************************************************)
(* C7: for a MultiCall carrying m1..mn that passed validation,             *)
(* handle_payload is invoked for every mi, in list order, and the          *)
(* MultiCall returns success, whatever happens to the inner messages.      *)
(***************************************************************************)
C7_MultiCallHandlesAll ==
    (rLast.called /\ rLast.payload.msg.tag = "MultiCall"
                  /\ ~Rejects(rLast.node, rLast.payload)) =>
        LET inner == rLast.payload.msg.inner
            calls == EventsAt(rLast.trace, "handle_payload", 1)
        IN  /\ Len(calls) = Len(inner)
            /\ \A i \in 1..Len(inner) : calls[i].msg = inner[i]
            /\ rLast.result.ok

\* The same, for the MultiCalls whose inner messages can all be re-wrapped:
\* failures of the inner handle_payload calls are dropped.
C7_HandlerFailuresDropped ==
    (rLast.called /\ rLast.payload.msg.tag = "MultiCall"
                  /\ ~Rejects(rLast.node, rLast.payload)
                  /\ \A i \in 1..Len(rLast.payload.msg.inner) :
                         rLast.payload.msg.inner[i].wrap) =>
        LET inner == rLast.payload.msg.inner
            calls == EventsAt(rLast.trace, "handle_payload", 1)
        IN  /\ Len(calls) = Len(inner)
            /\ \A i \in 1..Len(inner) : calls[i].msg = inner[i]
            /\ rLast.result.ok

\* An inner message failed in its handler and the next one was handled.
C7_Witness ==
    /\ rLast.called
    /\ rLast.payload.msg.tag = "MultiCall"
    /\ Len(rLast.payload.msg.inner) = 2
    /\ rLast.payload.msg.inner[1].tag = "FindSuccessorSend"
    /\ ~rLast.payload.msg.inner[1].ok
    /\ Len(EventsAt(rLast.trace, "handle_payload", 1)) = 2
    /\ rLast.result.ok

(***************************************************************************)
(* C8 as stated: a message whose tag has no dispatch arm makes             *)
(* handle_payload return the unsupported-message-type error.               *)
(***************************************************************************)
C8_UnsupportedAlways ==
    (rLast.called /\ rLast.payload.msg.tag \notin HandledTags \cup {"MultiCall"}) =>
        rLast.result = Err("MessageHandlerUnsupportMessageType",
                           rLast.payload.msg.tag)

(***************************************************************************)
(* C8, amended: a message whose tag has no dispatch arm makes              *)
(* handle_payload return the unsupported-message-type error, unless an     *)
(* installed validator rejects the payload first, and then InvalidMessage  *)
(* is returned.  In both cases no handler and no callback runs for it, so  *)
(* nothing is sent and the ring is left as it is (only handlers and        *)
(* callbacks send or touch the ring); the same holds for such a message    *)
(* inside a MultiCall.                                                     *)
(***************************************************************************)
C8_Unsupported ==
    rLast.called =>
        LET n == rLast.node
            p == rLast.payload
            t == rLast.trace
        IN  /\ p.msg.tag \notin HandledTags \cup {"MultiCall"} =>
                /\ rLast.result
                     = IF Rejects(n, p)
                       THEN Err("InvalidMessage",
                                ValidatorReason(rValidator[n], p))
                       ELSE Err("MessageHandlerUnsupportMessageType", p.msg.tag)
                /\ \A i \in 1..Len(t) : t[i].ev \in {"handle_payload", "validate"}
                /\ rCustomLog[n] = <<>>
            /\ \A i \in 1..Len(t) :
                   t[i].ev \in CallbackEvents \cup {"handle"} =>
                       t[i].msg.tag \in HandledTags \cup {"MultiCall"}

\* An unsupported message was handled with no validator in the way.
C8_Witness ==
    /\ rLast.called
    /\ rLast.payload.msg.tag = "JoinSubRing"
    /\ rCallback[rLast.node]
    /\ ~Rejects(rLast.node, rLast.payload)
    /\ rLast.result.err = "MessageHandlerUnsupportMessageType"

(***************************************************************************)
(* C1: a payload that fails verification or is expired is never handed to  *)
(* handle_payload by a listener, be it listen or listen_once.              *)
(***************************************************************************)
C1_UnverifiedNeverHandled ==
    \A n \in Node : \A i \in 1..Len(rHandled[n]) :
        rArrived[n][rHandled[n][i].k].verified

\* The same for the streaming listener alone: it skips the payload and takes
\* the next one.
C1_ListenSkipsUnverified ==
    \A n \in Node : rRuntime[n] = "native" =>
        \A i \in 1..Len(rHandled[n]) : rArrived[n][rHandled[n][i].k].verified

(***************************************************************************)
(* C2: when handle_payload returns an error for payload k, the loop of     *)
(* listen goes on: every later payload the stream yields is verified and,  *)
(* if it verifies, handled, in arrival order, and after the error the loop *)
(* is left only at the end of the stream.                                  *)
(***************************************************************************)
C2_ListenContinuesAfterError ==
    \A n \in Node : rRuntime[n] = "native" =>
        LET h == rHandled[n]
        IN  /\ \A i \in 1..Len(h) : h[i].k <= rPos[n]
            /\ \A i, j \in 1..Len(h) : i < j => h[i].k < h[j].k
            /\ \A i \in 1..Len(h) : ~h[i].ok =>
                   /\ \A k \in (h[i].k + 1)..rPos[n] :
                          rArrived[n][k].verified
                              <=> \E j \in 1..Len(h) : h[j].k = k
                   /\ rListener[n] = "done" =>
                          rEnded[n] /\ rPos[n] = Len(rArrived[n])
                   /\ rListener[n] = "running"
                          \/ (rEnded[n] /\ rPos[n] = Len(rArrived[n]))

\* A handler failed on one payload and the next payload was handled.
C2_Witness ==
    LET h == rHandled[ListenNode]
    IN  /\ rRuntime[ListenNode] = "native"
        /\ Len(h) >= 2
        /\ ~h[1].ok
        /\ h[2].k = h[1].k + 1

C3_FindSuccessorNeverPanics ==
    /\ (bLast.called /\ bLast.msg.tag = "FindSuccessor") =>
           bLast.result \in {"Ok", "Err"}
    /\ \A n \in BNode :
           (bLast.called /\ bLast.node = n /\ bLast.msg.tag = "FindSuccessor") =>
               ~bPanicked[n]

(***************************************************************************)
(* C10: handling an incoming FindSuccessor (SEND) produces exactly one     *)
(* outgoing message: a REPORT FoundSuccessor with the answer, sent to the  *)
(* node the request came from, when find_successor answers locally; or a   *)
(* SEND FindSuccessor to the next node chosen by find_successor, with this *)
(* node appended to from_path, the next node appended to to_path, and      *)
(* tx_id, message_id and the earlier path elements unchanged.              *)
(***************************************************************************)
C10_FindSuccessorOneMessage ==
    (bLast.called /\ bLast.msg.tag = "FindSuccessor") =>
        LET n == bLast.node
            relay == bLast.msg.relay
            a == bLast.action
        IN  /\ Len(bLast.sends) = 1
            /\ bLast.sends[1].ok
            /\ LET s == bLast.sends[1]
               IN  \/ /\ a.kind = "Some"
                      /\ s.to = bLast.prev
                      /\ s.msg.tag = "FoundSuccessor"
                      /\ s.msg.relay.protocol = "REPORT"
                      /\ s.msg.did = a.node
                   \/ /\ a.kind = "RemoteAction"
                      /\ s.to = a.node
                      /\ s.msg.tag = "FindSuccessor"
                      /\ s.msg.did = bLast.msg.did
                      /\ s.msg.relay.protocol = "SEND"
                      /\ s.msg.relay.from_path = Append(relay.from_path, n)
                      /\ s.msg.relay.to_path = Append(relay.to_path, a.node)
                      /\ s.msg.relay.tx_id = relay.tx_id
                      /\ s.msg.relay.message_id = relay.message_id

\* What the peer of n has sent to n, as n's callback should see it.
SentTo(n) ==
    [i \in 1..Len(rSent[Peer(n)]) |-> <<Peer(n), rSent[Peer(n)][i].body>>]

(***************************************************************************)
(* C9: between two directly connected nodes the receiver's custom-message  *)
(* callback has at every moment observed the messages its listener has     *)
(* taken so far: a prefix of what the peer sent, in send order, each once  *)
(* and tagged with the sender's Did; a running listener ends up having     *)
(* observed all of them, those sent before it was started included.        *)
(***************************************************************************)
C9_CallbackObservesSends ==
    /\ [](\A n \in Node :
             /\ rPos[n] <= Len(SentTo(n))
             /\ rCustomLog[n] = SubSeq(SentTo(n), 1, rPos[n]))
    /\ \A n \in Node :
          (rListener[n] = "running") ~>
              (Len(rSent[Peer(n)]) = MaxSends => rCustomLog[n] = SentTo(n))

\* Both directions have been observed, one of them with two different
\* messages of which the first was sent before the listener was started.
C9_Witness ==
    \E n \in Node :
        /\ Len(rCustomLog[n]) = 2
        /\ rCustomLog[n][1] = <<Peer(n), "b">>
        /\ rCustomLog[n][2] = <<Peer(n), "a">>
        /\ rSent[Peer(n)][1].early
        /\ rCustomLog[Peer(n)] = <<<<n, "a">>>>

\* The last call handled a message with this tag, at node n.
LastIs(tag) == bLast.called /\ bLast.msg.tag = tag

\* The ring state of the node of the last call is as the call found it.
RingKept ==
    /\ bSuccessor[bLast.node] = bLast.successor
    /\ bPredecessor[bLast.node] = bLast.predecessor
    /\ bFinger[bLast.node] = bLast.finger

\* The last call was given a REPORT addressed to the node handling it.
ReportForNode ==
    /\ bLast.msg.relay.protocol = "REPORT"
    /\ bLast.msg.relay.to_path # <<>>
    /\ Last(bLast.msg.relay.to_path) = bLast.node

(***************************************************************************)
(* C11: a FoundSuccessor REPORT handled at node n has n popped off         *)
(* to_path; with to_path then non-empty, n forwards exactly one REPORT     *)
(* with the same answer to the new last element and keeps its ring state;  *)
(* with to_path empty, n sets its successor to the reported id and sends   *)
(* nothing.                                                                *)
(***************************************************************************)
C11_FoundSuccessorRelay ==
    (LastIs("FoundSuccessor") /\ ReportForNode) =>
        LET n == bLast.node
            to_path == PopBack(bLast.msg.relay.to_path)
        IN  IF to_path # <<>>
            THEN /\ Len(bLast.sends) = 1
                 /\ bLast.sends[1].to = Last(to_path)
                 /\ bLast.sends[1].msg.tag = "FoundSuccessor"
                 /\ bLast.sends[1].msg.did = bLast.msg.did
                 /\ bLast.sends[1].msg.relay.protocol = "REPORT"
                 /\ bLast.sends[1].msg.relay.to_path = to_path
                 /\ RingKept
            ELSE /\ bLast.sends = <<>>
                 /\ bLast.result = "Ok"
                 /\ bSuccessor[n] = bLast.msg.did
                 /\ bPredecessor[n] = bLast.predecessor
                 /\ bFinger[n] = bLast.finger

\* A REPORT was forwarded to the node below on to_path, with an answer that
\* is not the forwarder's successor.
C11_Witness ==
    /\ LastIs("FoundSuccessor")
    /\ ReportForNode
    /\ Len(bLast.msg.relay.to_path) = 2
    /\ Len(bLast.sends) = 1
    /\ bLast.sends[1].ok
    /\ bLast.msg.did # bSuccessor[bLast.node]

(***************************************************************************)
(* C12: every FoundSuccessor or NotifiedPredecessor a node n receives in   *)
(* an execution started by a FindSuccessor request has protocol REPORT     *)
(* and to_path.back() = n, so the assertions of the two handlers hold.     *)
(***************************************************************************)
C12_ReportAddressedToReceiver ==
    (LastIs("FoundSuccessor") \/ LastIs("NotifiedPredecessor")) =>
        /\ ReportForNode
        /\ bLast.result # "panic"

(***************************************************************************)
(* C13: handling NotifyPredecessor(pred), sent by a stabilizing node with  *)
(* to_path = [receiver] and from_path = [sender], applies notify(pred) and *)
(* then sends exactly one REPORT NotifiedPredecessor carrying the          *)
(* predecessor as it is after the notify to the node that sent the         *)
(* NotifyPredecessor.                                                      *)
(***************************************************************************)
C13_NotifiedGoesToSender ==
    (/\ LastIs("NotifyPredecessor")
     /\ bLast.msg.relay.to_path = <<bLast.node>>
     /\ bLast.msg.relay.from_path = <<bLast.prev>>) =>
        /\ Len(bLast.sends) = 1
        /\ bLast.sends[1].to = bLast.prev
        /\ bLast.sends[1].msg.tag = "NotifiedPredecessor"
        /\ bLast.sends[1].msg.relay.protocol = "REPORT"
        /\ bLast.sends[1].msg.did = bPredecessor[bLast.node]

(***************************************************************************)
(* C14: handling NotifiedPredecessor(p) sets successor to p only if p lies *)
(* in the open interval (id, successor); otherwise the successor is left   *)
(* unchanged.  Stated for a node that has a successor other than itself.   *)
(***************************************************************************)
C14_SuccessorOnlyFromInterval ==
    (/\ LastIs("NotifiedPredecessor")
     /\ ReportForNode
     /\ bLast.successor # bLast.node) =>
        bSuccessor[bLast.node] =
            IF in_open(bLast.node, bLast.successor, bLast.msg.did)
            THEN bLast.msg.did
            ELSE bLast.successor

(***************************************************************************)
(* C15: each stabilize tick sends NotifyPredecessor carrying the node's    *)
(* own id to the node's current successor: the destination of the send is  *)
(* the successor, with to_path = [successor] and from_path = [id].         *)
(***************************************************************************)
C15_NotifyGoesToSuccessor ==
    LastIs("stabilize") =>
        /\ Len(bLast.sends) >= 1
        /\ bLast.sends[1].msg.tag = "NotifyPredecessor"
        /\ bLast.sends[1].msg.did = bLast.node
        /\ bLast.sends[1].msg.relay.to_path = <<bLast.successor>>
        /\ bLast.sends[1].msg.relay.from_path = <<bLast.node>>
        /\ bLast.sends[1].to = bLast.successor

(***************************************************************************)
(* C16: one stabilize tick issues at most one outgoing send, whatever      *)
(* fix_fingers returns.                                                    *)
(***************************************************************************)
C16_TickSendsAtMostOnce ==
    LastIs("stabilize") => Len(bLast.sends) <= 1

(***************************************************************************)
(* C17: a FindSuccessorForFix sent by the maintenance tick is handled by   *)
(* the node receiving it and not rejected as an unsupported message.       *)
(***************************************************************************)
C17_FixRequestHandled ==
    LastIs("FindSuccessorForFix") =>
        /\ bLast.result = "Ok"
        /\ Len(bLast.sends) = 1

\* Every node has made MaxRounds stabilize ticks and all messages have been
\* handled.
RoundsDone == Quiet /\ \A n \in BNode : bTicks[n] = MaxRounds

(***************************************************************************)
(* C18: for nodes A < B < C where A and C have joined B, after 5 rounds of *)
(* stabilize with all messages delivered and handled, each node's          *)
(* successor is the next node on the ring and its predecessor the node     *)
(* before it.                                                              *)
(***************************************************************************)
C18_RingFormsInFiveRounds ==
    RoundsDone =>
        \A n \in BNode :
            /\ bSuccessor[n] = NextNode(n)
            /\ bPredecessor[n] = PrevNode(n)

\* The one reply of the last call: to the previous hop, with this tag, naming
\* the handling node as the answerer.
RepliedWith(tag) ==
    /\ Len(bLast.sends) = 1
    /\ bLast.sends[1].to = bLast.prev
    /\ bLast.sends[1].msg.tag = tag
    /\ bLast.sends[1].msg.did = bLast.node

C20_ConnectReportTravelsBack ==
    (LastIs("ConnectNodeResponse") \/ LastIs("AlreadyConnected")) =>
        LET given == bLast.msg.relay.to_path
            to_path == IF given # <<>> /\ Last(given) = bLast.node
                       THEN PopBack(given)
                       ELSE given
        IN  IF to_path # <<>>
            THEN /\ Len(bLast.sends) = 1
                 /\ bLast.sends[1].msg.tag = bLast.msg.tag
                 /\ Len(bLast.sends[1].msg.relay.to_path) < Len(given)
            ELSE /\ bLast.sends = <<>>
                 /\ bLast.result =
                        IF bLast.msg.did \in bLast.transport THEN "Ok" ELSE "Err"

\* C21: no handler and no maintenance routine holds the lock on the Chord ring
\* while it awaits an outgoing send: whenever a task is inside send_message it
\* does not hold the routing mutex.
C21_RingLockReleasedBeforeSend ==
    \A t \in DOMAIN kProg : AtSend(t) => kHeld["routing"] # t

\* The mutexes a task holds.
HeldBy(t) == {m \in DOMAIN kHeld : kHeld[m] = t}

\* C22: the transport mutexes are only acquired in the order connection,
\* data_channel, pending_candidates: a task that asks for a mutex holds none of
\* the same or a later rank; and no interleaving deadlocks: whoever holds the
\* mutex a task waits for is not itself waiting.
C22_TransportLockOrder ==
    \A t \in DOMAIN kProg :
        /\ (~Finished(t) /\ NextInstr(t).op = "lock") =>
               \A m \in HeldBy(t) : Rank(m) < Rank(NextInstr(t).mutex)
        /\ Blocked(t) => ~Blocked(kHeld[NextInstr(t).mutex])

\* Contention happens: get_handshake_info waits for pending_candidates while
\* the local-candidate callback holds it, and start waits for the connection.
C22_Witness ==
    /\ "get_handshake_info" \in DOMAIN kProg
    /\ Blocked("get_handshake_info")
    /\ kHeld["pending_candidates"] = "on_ice_candidate"
    /\ Blocked("start")
    /\ kHeld["connection"] = "register_remote_info"

\* C23: wait_for_connected eventually resolves: once the promise of the call
\* exists and the connection is Connected or Failed, whether it got there
\* before or after the call, the await returns (unless a later call has taken
\* over the callback).
C23_WaitForConnectedResolves ==
    \A i \in 1..MaxPromises :
        (Len(pPromises) >= i /\ pHandler = i /\ pState \in {"Connected", "Failed"})
            ~> (pHandler # i \/ pPromises[i].task \in {"ok", "err"})

\* C25: when the data channel reports `sent` bytes for a message of `size`
\* bytes, send_message returns MessageIncomplete(sent, size) if sent # size and
\* success only if sent = size.
C25_ShortWriteReported ==
    (Called("send_message") /\ fCall.in.channel # "None" /\ fCall.in.result.ok) =>
        /\ fCall.in.result.sent # fCall.in.size =>
               fCall.out = Err("RTCDataChannelMessageIncomplete",
                               <<fCall.in.result.sent, fCall.in.size>>)
        /\ fCall.out.ok => fCall.in.result.sent = fCall.in.size

\* C26: send_message fails with DataChannelNotReady whenever the data channel
\* is not open, whether none has been set up or one exists in a ready state
\* other than Open, and never succeeds then.
C26_NotReadyWhenNotOpen ==
    (Called("send_message") /\ fCall.in.channel # "Open") =>
        fCall.out = Err("RTCDataChannelNotReady", << >>)

\* The transport of side x has just been through an ICE state change to cs.
IceChanged(x, cs) ==
    /\ hLast'.op = "ice" /\ hLast'.side = x /\ hLast'.arg = cs
    /\ hT'[x].ice = cs /\ hT[x].ice # cs

\* C24: every ICE connection state change to Connected emits exactly one
\* RegisterTransport(did, uuid) with the remote peer's Did and the transport's
\* id, every change to Failed, Disconnected or Closed exactly one ConnectClosed
\* for the same pair, and every other change no event.
C24_StateChangeEmitsOneEvent ==
    [][\A x \in Side : \A cs \in IceStates :
          IceChanged(x, cs) =>
              hT'[x].events =
                  hT[x].events \o
                  (CASE cs = "Connected" ->
                          << TransportEvent("RegisterTransport",
                                            Address(hT[OtherSide(x)].key), hT[x].id) >>
                     [] cs \in {"Failed", "Disconnected", "Closed"} ->
                          << TransportEvent("ConnectClosed",
                                            Address(hT[OtherSide(x)].key), hT[x].id) >>
                     [] OTHER -> << >>)]_vars

\* Side x has just returned from register_remote_info.
Registered(x) == hLast'.op = "register_remote_info" /\ hLast'.side = x

\* The bundle verifies, its SDP parses and the peer connection takes it.
Acceptable(t, encoded) ==
    /\ decode(encoded).ok
    /\ verify(encoded.body)
    /\ encoded.body.data.sdp.valid
    /\ set_remote_description(t, encoded.body.data.sdp).ok

\* The effect of a successful register_remote_info on the transport.
Recorded(t, t2, encoded) ==
    /\ t2.remote = encoded.body.data.sdp.type
    /\ t2.attempted = t.attempted + Len(encoded.body.data.candidates)
    /\ t2.added = t.added + Taken(encoded.body.data.candidates)
    /\ t2.public_key = encoded.body.session

C30_FromStrRejects ==
    (/\ Called("from_str")
     /\ \/ Lower(fCall.in.scheme) \notin {"stun", "turn"}
        \/ ~fCall.in.authority
        \/ fCall.in.host = "")
    => (~fCall.out.ok /\ fCall.out.info = << >>)

\* A turn URL with an authority but an empty host has been refused.
C30_Witness ==
    /\ Called("from_str")
    /\ fCall.in.scheme = "turn"
    /\ fCall.in.authority
    /\ fCall.in.host = ""
    /\ fCall.in.path = "/nginx/v2"
    /\ fCall.out = Err("url do not has a host", << >>)

\* C31: for every URL scheme://[user[:pass]@]host[:port][/path] whose scheme
\* is stun or turn, from_str returns an IceServer with exactly one url,
\* scheme:host followed by :port when a port is given and by the path when a
\* path is given, the user as username and the password as credential (each
\* empty when absent), and credential_type Password.
C31_FromStrBuilds ==
    (/\ Called("from_str")
     /\ fCall.in.scheme \in {"stun", "turn"}
     /\ fCall.in.authority
     /\ fCall.in.host # "")
    => LET in == fCall.in
           url == in.scheme \o ":" \o in.host
                  \o (IF in.port = << >> THEN "" ELSE ":" \o ToString(in.port[1]))
                  \o in.path
       IN  /\ fCall.out.ok
           /\ fCall.out.info.urls = <<url>>
           /\ fCall.out.info.username = in.user
           /\ fCall.out.info.credential = (IF in.pass = << >> THEN "" ELSE in.pass[1])
           /\ fCall.out.info.credential_type = "Password"

\* turn://ryan@ethereum.org:9090/nginx/v2 has been parsed.
C31_Witness ==
    /\ Called("from_str")
    /\ fCall.in = UrlText("turn", TRUE, "ryan", << >>, "ethereum.org", <<9090>>,
                          "/nginx/v2")
    /\ fCall.out.ok
    /\ fCall.out.info.urls = <<"turn:ethereum.org:9090/nginx/v2">>
    /\ fCall.out.info.username = "ryan"
    /\ fCall.out.info.credential = ""

C33_ListenerNeverWaitsForItself ==
    ~(/\ Blocked("listen")
      /\ kHeld[NextInstr("listen").mutex] = "listen")

\* C34: when several ConnectNode requests of one sender, addressed to this
\* node, are handled at once, at most one transport for the sender is made and
\* answered with a ConnectNodeResponse, and the other requests are answered
\* AlreadyConnected; the table never holds a transport for the sender other
\* than the one whose answer was sent; and a transport enters the table only
\* after its wait_for_connected succeeded.
C34_OneTransportPerSender ==
    /\ Cardinality({i \in DOMAIN cLog : cLog[i].ev = "ConnectNodeResponse"}) <= 1
    /\ \A t \in ConnTasks :
          (cTask[t].pc = "done" /\ cTask[t].result = "Ok")
          => \E i \in DOMAIN cLog :
                /\ cLog[i].task = t
                /\ cLog[i].ev \in {"AlreadyConnected", "ConnectNodeResponse"}
    /\ cTable \notin {None, OldTransport}
       => \E i \in DOMAIN cLog :
             cLog[i].ev = "ConnectNodeResponse" /\ cLog[i].trans = cTable
    /\ \A i \in DOMAIN cLog :
          cLog[i].ev = "registered"
          => \E j \in 1..(i - 1) :
                cLog[j].ev = "connected" /\ cLog[j].trans = cLog[i].trans

\* C35: the ICE connection-state callback of a transport never panics: a
\* change to Connected, Failed, Disconnected or Closed while no peer public key
\* is recorded is handled without reading the absent key.
C35_StateCallbackNeverPanics ==
    \A x \in Side : ~hT[x].panicked

\* C36: when connect_success_promise is called more than once before the
\* connection state settles, every promise that is being awaited then is
\* resolved once the state reaches Connected or Failed; a later call leaves no
\* earlier promise pending for ever.
C36_EveryPromiseResolves ==
    \A i \in 1..MaxPromises :
        []((/\ Len(pPromises) >= 2
            /\ Len(pPromises) >= i
            /\ pPromises[i].task = "pending"
            /\ pState \in {"New", "Connecting"})
           => [](pState \in {"Connected", "Failed"}
                 => <>(/\ Len(pPromises) >= i
                       /\ pPromises[i].task \in {"ok", "err"})))

\* C37: a FindSuccessor or NotifyPredecessor message whose relay has an empty
\* to_path never makes the handler panic: the handler returns an error or
\* handles the message.
C37_EmptyPathNeverPanics ==
    (/\ bLast.called
     /\ bLast.msg.tag \in {"FindSuccessor", "NotifyPredecessor"}
     /\ bLast.msg.relay.to_path = << >>)
    => bLast.result # "panic"

\* C38: in handle_notify_predecessor the predecessor is set when the report
\* is built: after notify(pred), whatever the ring state before (predecessor
\* absent or present, pred inside or outside (predecessor, id)), the
\* predecessor is not None, and the NotifiedPredecessor report carries it.
C38_PredecessorSetAfterNotify ==
    LastIs("NotifyPredecessor")
    => /\ bPredecessor[bLast.node] # None
       /\ \A i \in DOMAIN bLast.sends :
             /\ bLast.sends[i].msg.tag = "NotifiedPredecessor"
             /\ bLast.sends[i].msg.did = bPredecessor[bLast.node]

\* A node without predecessor has been notified and has reported the new
\* predecessor.
C38_Witness ==
    /\ LastIs("NotifyPredecessor")
    /\ bLast.predecessor = None
    /\ bLast.result = "Ok"
    /\ Len(bLast.sends) = 1
    /\ bLast.sends[1].msg.did = bLast.msg.did
    /\ bPredecessor[bLast.node] = bLast.msg.did

\* C39: every message type a node emits is dispatched to a handler by the
\* receiver's handle_payload: a JoinSubRing message that the validator lets
\* through reaches the JoinSubRing handler and is not rejected as an
\* unsupported message type.
C39_JoinSubRingDispatched ==
    (/\ rLast.called
     /\ rLast.payload.msg.tag = "JoinSubRing"
     /\ ~Rejects(rLast.node, rLast.payload))
    => /\ rLast.result.err # "MessageHandlerUnsupportMessageType"
       /\ \E i \in 1..Len(rLast.trace) :
             /\ rLast.trace[i].ev = "handle"
             /\ rLast.trace[i].msg.tag = "JoinSubRing"

\* C40: the custom callback is invoked on a node only for CustomMessage
\* payloads whose relay destination is the node's own id, never for one
\* addressed to another node; and every successfully handled message that is
\* not a CustomMessage invokes the builtin callback of an installed callback,
\* whatever its destination.
C40_CustomCallbackForOwnDestination ==
    rLast.called =>
        LET n == rLast.node
            t == rLast.trace
        IN  /\ \A i \in 1..Len(t) :
                  t[i].ev = "custom_message" =>
                      /\ t[i].msg.tag = "CustomMessage"
                      /\ t[i].dest = n
            /\ \A i \in 1..Len(t) :
                  (/\ t[i].ev = "invoke_callback"
                   /\ t[i].msg.tag = "CustomMessage"
                   /\ t[i].dest # n)
                  => (i = Len(t) \/ t[i + 1].ev \notin {"custom_message",
                                                        "builtin_message"})
            /\ \A i \in 1..Len(t) :
                  (/\ t[i].ev = "invoke_callback"
                   /\ t[i].msg.tag # "CustomMessage"
                   /\ rCallback[n])
                  => /\ i < Len(t)
                     /\ t[i + 1] = [t[i] EXCEPT !.ev = "builtin_message"]
            /\ \A i \in 1..Len(t) :
                  (/\ t[i].ev = "handle"
                   /\ t[i].msg.ok
                   /\ t[i].msg.tag # "CustomMessage"
                   /\ rCallback[n])
                  => \E j \in (i + 1)..Len(t) :
                        t[j] = [t[i] EXCEPT !.ev = "builtin_message"]
            /\ (\A i \in 1..Len(t) : t[i].dest # n) => rCustomLog[n] = << >>

\* A node with a callback has handled a CustomMessage addressed to its peer,
\* and a message of another type addressed to its peer.
C40_Witness ==
    /\ rLast.called
    /\ rCallback[rLast.node]
    /\ rLast.result.ok
    /\ rLast.payload.dest # rLast.node
    /\ rLast.payload.msg.tag = "MultiCall"
    /\ \E i \in 1..Len(rLast.trace) :
          /\ rLast.trace[i].ev = "handle"
          /\ rLast.trace[i].msg.tag = "CustomMessage"
    /\ \E i \in 1..Len(rLast.trace) :
          /\ rLast.trace[i].ev = "builtin_message"
          /\ rLast.trace[i].msg.tag = "FindSuccessorSend"
    /\ \A i \in 1..Len(rLast.trace) : rLast.trace[i].ev # "custom_message"

====
